---- MODULE Spec2Model ----
(***************************************************************************)
(* A model of v8unpack4rs: the codec of the 1C v8 container, the paged     *)
(* block reader, the sequential unpack operations, the builders and the    *)
(* pipelined unpack (reader -> inflate -> parse/write).                    *)
(*                                                                         *)
(* Files and buffers are sequences of bytes (0..255).  A reader is a pair  *)
(* (bytes, pos) with pos counted from 0, as std::io::Seek counts it.       *)
(* A Result<T> is a record [ok |-> TRUE, val |-> v] or                      *)
(* [ok |-> FALSE, err |-> e] with e the V8Error variant.                   *)
(***************************************************************************)
EXTENDS Integers, Sequences, FiniteSets, TLC

(***************************************************************************)
(* Program constants                                                       *)
(***************************************************************************)
V8_DEFAULT_PAGE_SIZE == 512

V8_MAGIC_NUMBER == 2147483647

FileHeader_SIZE == 4 + 4 + 4 + 4

BlockHeader_SIZE == 1 + 1 + 8 + 1 + 8 + 1 + 8 + 1 + 1 + 1

ElemAddr_SIZE == 4 + 4 + 4

ElemHeaderBegin_SIZE == 8 + 8 + 4

\* b'\r', b'\n', b'\x20'
CR == 13

LF == 10

SP == 32

(***************************************************************************)
(* Results and small helpers                                               *)
(***************************************************************************)
Ok(v) == [ok |-> TRUE, val |-> v]

Err(e) == [ok |-> FALSE, err |-> e]

\* let v = ...; the value is computed once and named in what follows
With(v, F(_)) == CHOOSE out \in { F(x) : x \in {v} } : TRUE

\* The ? operator: the value of an Ok goes on, an Err is returned.
Try(r, F(_)) ==
    CHOOSE out \in { IF x.ok THEN F(x.val) ELSE x : x \in {r} } : TRUE

Min(a, b) == IF a < b THEN a ELSE b

Max(a, b) == IF a < b THEN b ELSE a

\* src.take(n).read_to_end(&mut buf): the at most n bytes that follow pos.
Take(bytes, pos, n) == SubSeq(bytes, pos + 1, Min(pos + n, Len(bytes)))

Zeros(n) == [i \in 1..n |-> 0]

\* WriteBytesExt::write_u32::<LittleEndian>
U32LE(v) ==
    << v % 256, (v \div 256) % 256, (v \div 65536) % 256, (v \div 16777216) % 256 >>

\* ReadBytesExt::read_u32::<LittleEndian> on the four bytes b
FromU32LE(b) == b[1] + 256 * b[2] + 65536 * b[3] + 16777216 * b[4]

(***************************************************************************)
(* FileHeader                                                              *)
(***************************************************************************)
FileHeader_new(next_page_addr, page_size, storage_ver) ==
    [next_page_addr |-> next_page_addr, page_size |-> page_size,
     storage_ver |-> storage_ver, reserved |-> 0]

FileHeader_from_raw_parts(bytes, pos) ==
    With(Take(bytes, pos, FileHeader_SIZE), LAMBDA buf :
    IF Len(buf) < FileHeader_SIZE THEN Err("IoError")
    ELSE Ok([next_page_addr |-> FromU32LE(SubSeq(buf, 1, 4)),
             page_size      |-> FromU32LE(SubSeq(buf, 5, 8)),
             storage_ver    |-> FromU32LE(SubSeq(buf, 9, 12)),
             reserved       |-> FromU32LE(SubSeq(buf, 13, 16))]))

FileHeader_into_bytes(h) ==
    U32LE(h.next_page_addr) \o U32LE(h.page_size) \o U32LE(h.storage_ver)
        \o U32LE(h.reserved)

(***************************************************************************)
(* BlockHeader                                                             *)
(***************************************************************************)
HexDigit(d) == IF d < 10 THEN 48 + d ELSE 87 + d

\* format!("{:08x}", value) as bytes
convert(value) ==
    [i \in 1..8 |-> HexDigit((value \div (16 ^ (8 - i))) % 16)]

BlockHeader_new(data_size, page_size, next_page_addr) ==
    [eol_0d |-> CR, eol_0a |-> LF,
     data_size_hex |-> convert(data_size), space1 |-> SP,
     page_size_hex |-> convert(page_size), space2 |-> SP,
     next_page_addr_hex |-> convert(next_page_addr), space3 |-> SP,
     eol2_0d |-> CR, eol2_0a |-> LF]

BlockHeader_from_raw_parts(bytes, pos) ==
    With(Take(bytes, pos, BlockHeader_SIZE), LAMBDA buf :
    IF Len(buf) < BlockHeader_SIZE THEN Err("IoError")
    ELSE Ok([eol_0d |-> buf[1], eol_0a |-> buf[2],
             data_size_hex |-> SubSeq(buf, 3, 10), space1 |-> buf[11],
             page_size_hex |-> SubSeq(buf, 12, 19), space2 |-> buf[20],
             next_page_addr_hex |-> SubSeq(buf, 21, 28), space3 |-> buf[29],
             eol2_0d |-> buf[30], eol2_0a |-> buf[31]]))

\* A check that leaves out the space after the last hex field.
BlockHeader_is_correct_but_space3(h) ==
    /\ h.eol_0d = CR
    /\ h.eol_0a = LF
    /\ h.space1 = SP
    /\ h.space2 = SP
    /\ h.eol2_0d = CR
    /\ h.eol2_0a = LF

BlockHeader_is_correct(h) ==
    /\ h.eol_0d = CR
    /\ h.eol_0a = LF
    /\ h.space1 = SP
    /\ h.space2 = SP
    /\ h.space3 = SP
    /\ h.eol2_0d = CR
    /\ h.eol2_0a = LF

BlockHeader_into_bytes(h) ==
    << h.eol_0d, h.eol_0a >> \o h.data_size_hex \o << h.space1 >>
        \o h.page_size_hex \o << h.space2 >> \o h.next_page_addr_hex
        \o << h.space3, h.eol2_0d, h.eol2_0a >>

\* char::to_digit(16): -1 when the byte is no hexadecimal digit
HexValue(c) ==
    IF c >= 48 /\ c <= 57 THEN c - 48
    ELSE IF c >= 97 /\ c <= 102 THEN c - 87
    ELSE IF c >= 65 /\ c <= 70 THEN c - 55
    ELSE -1

\* The number written by the first i hexadecimal digits of digits.
RECURSIVE HexNumber(_, _)
HexNumber(digits, i) ==
    IF i = 0 THEN 0 ELSE 16 * HexNumber(digits, i - 1) + HexValue(digits[i])

\* str::from_utf8 then u32::from_str_radix(s, 16): a leading '+' is accepted,
\* at least one digit is needed, any other byte is an error.
BlockHeader_get_u32(value) ==
    With(IF Len(value) > 0 /\ value[1] = 43 THEN Tail(value) ELSE value,
         LAMBDA digits :
    IF \E i \in 1..Len(value) : value[i] >= 128 THEN Err("Utf8Error")
    ELSE IF digits = << >> \/ \E i \in 1..Len(digits) : HexValue(digits[i]) < 0
         THEN Err("ParseIntError")
    ELSE Ok(HexNumber(digits, Len(digits))))

\* get_u32 of the older crate (src/src/container.rs, lines 203-214):
\* str::from_utf8 panics on bytes that are no UTF-8 (the pseudo error
\* "PANIC"); a string that from_str_radix does not parse gives 0.
BlockHeader_get_u32_lenient(value) ==
    With(IF Len(value) > 0 /\ value[1] = 43 THEN Tail(value) ELSE value,
         LAMBDA digits :
    IF \E i \in 1..Len(value) : value[i] >= 128 THEN Err("PANIC")
    ELSE IF digits = << >> \/ \E i \in 1..Len(digits) : HexValue(digits[i]) < 0
         THEN Ok(0)
    ELSE Ok(HexNumber(digits, Len(digits))))

BlockHeader_get_data_size(h) == BlockHeader_get_u32(h.data_size_hex)

BlockHeader_get_page_size(h) == BlockHeader_get_u32(h.page_size_hex)

BlockHeader_get_next_page_addr(h) == BlockHeader_get_u32(h.next_page_addr_hex)

(***************************************************************************)
(* read_block_data (parser/single.rs)                                      *)
(*                                                                         *)
(* The state of one call: status is "loop" while the while-loop runs,      *)
(* "ok" when the call returned Ok(result), "err" when it returned Err(err) *)
(* and "hang" when the loop did not end within RbdFuel iterations.         *)
(***************************************************************************)
RbdFuel == 8

\* Lines 159-165: decode data_size, start with an empty result.
rbd_enter(pos, block_header) ==
    With(BlockHeader_get_data_size(block_header), LAMBDA ds :
    [status |-> IF ds.ok THEN "loop" ELSE "err",
     err |-> IF ds.ok THEN "" ELSE ds.err,
     data_size |-> IF ds.ok THEN ds.val ELSE 0,
     read_in_bytes |-> 0,
     result |-> << >>,
     local_block_header |-> block_header,
     pos |-> pos])

rbd_fail(st, e) == [st EXCEPT !.status = "err", !.err = e]

\* Lines 184-189: the page's next_page_addr is followed, or the loop ends.
rbd_next_page(src, st, next_page_addr) ==
    IF next_page_addr # V8_MAGIC_NUMBER
    THEN With(BlockHeader_from_raw_parts(src, next_page_addr), LAMBDA h :
         IF ~h.ok
         THEN rbd_fail([st EXCEPT !.pos = next_page_addr
                                       + Len(Take(src, next_page_addr, BlockHeader_SIZE))],
                       h.err)
         ELSE [st EXCEPT !.local_block_header = h.val,
                         !.pos = next_page_addr + BlockHeader_SIZE])
    ELSE [st EXCEPT !.status = "ok"]

\* Lines 171-183: bytes_to_read bytes of the page are read.
rbd_read_page(src, st, bytes_to_read, next_page_addr) ==
    With(Take(src, st.pos, bytes_to_read), LAMBDA buf :
    IF Len(buf) < bytes_to_read
    THEN rbd_fail([st EXCEPT !.read_in_bytes = @ + bytes_to_read,
                             !.pos = @ + Len(buf)], "IoError")
    ELSE rbd_next_page(src,
             [st EXCEPT !.read_in_bytes = @ + bytes_to_read,
                        !.pos = @ + Len(buf),
                        !.result = @ \o buf],
             next_page_addr))

\* Lines 166-190: one test of the loop condition and one run of the body.
rbd_iter(src, st) ==
    IF ~(st.read_in_bytes < st.data_size) THEN [st EXCEPT !.status = "ok"]
    ELSE
    With(BlockHeader_get_page_size(st.local_block_header), LAMBDA page_size :
    With(BlockHeader_get_next_page_addr(st.local_block_header),
         LAMBDA next_page_addr :
    IF ~page_size.ok THEN rbd_fail(st, page_size.err)
    ELSE IF ~next_page_addr.ok THEN rbd_fail(st, next_page_addr.err)
    ELSE rbd_read_page(src, st,
             Min(page_size.val, st.data_size - st.read_in_bytes),
             next_page_addr.val)))

RECURSIVE rbd_loop(_, _, _)
rbd_loop(src, st, fuel) ==
    IF st.status # "loop" THEN st
    ELSE IF fuel = 0 THEN [st EXCEPT !.status = "hang"]
    ELSE With(rbd_iter(src, st), LAMBDA st1 : rbd_loop(src, st1, fuel - 1))

\* The whole call, for the callers: src positioned at pos, just after the
\* bytes of block_header.
read_block_data(src, pos, block_header) ==
    With(rbd_enter(pos, block_header), LAMBDA st : rbd_loop(src, st, RbdFuel))

\* The Result<Vec<u8>> of a finished read_block_data call.  A call whose loop
\* does not end returns nothing: it is carried as the pseudo error "HANG".
RbdResult(st) ==
    With(st, LAMBDA call :
    IF call.status = "ok" THEN Ok(call.result)
    ELSE IF call.status = "hang" THEN Err("HANG")
    ELSE Err(call.err))

(***************************************************************************)
(* Option<T>                                                               *)
(***************************************************************************)
None == [some |-> FALSE]

Some(v) == [some |-> TRUE, val |-> v]

(***************************************************************************)
(* deflate / inflate (external crates).  Only two facts of raw deflate are *)
(* kept: inflate_bytes(deflate_bytes(x)) = x, and inflate_bytes fails on   *)
(* bytes that are no deflate stream.  A stream is the tag byte 237         *)
(* followed by the uncompressed bytes.                                     *)
(***************************************************************************)
deflate_bytes(input) == << 237 >> \o input

inflate_bytes(input) ==
    IF Len(input) > 0 /\ input[1] = 237 THEN Ok(Tail(input))
    ELSE Err("inflate")

\* An adapter that gives nothing when the input is no deflate stream.
try_inflate_or_empty(input) ==
    With(inflate_bytes(input), LAMBDA r : IF r.ok THEN r.val ELSE << >>)

\* try_inflate_bytes (parser/single.rs, lines 288-295)
try_inflate_bytes(input) ==
    With(inflate_bytes(input), LAMBDA r : IF r.ok THEN r.val ELSE input)

(***************************************************************************)
(* V8Container for Cursor<T> and BufReader<File>                           *)
(***************************************************************************)
is_v8file(bytes) ==
    With(FileHeader_from_raw_parts(bytes, 0), LAMBDA file_header :
    With(BlockHeader_from_raw_parts(bytes, FileHeader_SIZE), LAMBDA block_header :
    IF ~file_header.ok THEN FALSE
    ELSE IF ~block_header.ok THEN FALSE
    ELSE BlockHeader_is_correct(block_header.val)))

\* A check that reads from where the reader stands.
is_v8file_no_rewind(bytes, position) ==
    With(FileHeader_from_raw_parts(bytes, position), LAMBDA file_header :
    With(BlockHeader_from_raw_parts(bytes, position + FileHeader_SIZE),
         LAMBDA block_header :
    IF ~file_header.ok THEN FALSE
    ELSE IF ~block_header.ok THEN FALSE
    ELSE BlockHeader_is_correct(block_header.val)))

\* is_v8file on a reader that stands at position: set_position(0) (or
\* seek(SeekFrom::Start(0))) comes first.
Cursor_is_v8file(bytes, position) ==
    With(0, LAMBDA start :
    With(FileHeader_from_raw_parts(bytes, start), LAMBDA file_header :
    With(BlockHeader_from_raw_parts(bytes, start + FileHeader_SIZE),
         LAMBDA block_header :
    IF ~file_header.ok THEN FALSE
    ELSE IF ~block_header.ok THEN FALSE
    ELSE BlockHeader_is_correct(block_header.val))))

get_file_header(bytes) == FileHeader_from_raw_parts(bytes, 0)

get_first_block_header(bytes) == BlockHeader_from_raw_parts(bytes, FileHeader_SIZE)

(***************************************************************************)
(* ElemAddr                                                                *)
(***************************************************************************)
ElemAddr_new(elem_data_addr, elem_header_addr) ==
    [elem_header_addr |-> elem_header_addr, elem_data_addr |-> elem_data_addr,
     fffffff |-> V8_MAGIC_NUMBER]

\* Three read_u32::<LittleEndian> in a row; each fails on fewer than 4 bytes.
ElemAddr_from_raw_parts(bytes, pos) ==
    IF Len(bytes) - pos < ElemAddr_SIZE THEN Err("IoError")
    ELSE Ok([elem_header_addr |-> FromU32LE(Take(bytes, pos, 4)),
             elem_data_addr   |-> FromU32LE(Take(bytes, pos + 4, 4)),
             fffffff          |-> FromU32LE(Take(bytes, pos + 8, 4))])

ElemAddr_into_bytes(a) ==
    U32LE(a.elem_header_addr) \o U32LE(a.elem_data_addr) \o U32LE(a.fffffff)

\* read_elems_addrs: the whole TOC block is cut into ElemAddr records, the
\* trailing field is not looked at.
RECURSIVE read_elems_addrs_loop(_, _, _)
read_elems_addrs_loop(block_data, position, elems_addrs) ==
    IF ~(position < Len(block_data)) THEN Ok(elems_addrs)
    ELSE Try(ElemAddr_from_raw_parts(block_data, position), LAMBDA a :
         read_elems_addrs_loop(block_data, position + ElemAddr_SIZE,
                               Append(elems_addrs, a)))

read_elems_addrs(src, pos, block_header) ==
    Try(RbdResult(read_block_data(src, pos, block_header)), LAMBDA block_data :
    read_elems_addrs_loop(block_data, 0, << >>))

(***************************************************************************)
(* V8Elem and V8File                                                       *)
(***************************************************************************)
V8File_new == [file_header |-> FileHeader_new(0, 0, 0), elems_addrs |-> << >>,
               elems |-> << >>]

V8Elem_new == [header |-> << >>, data |-> None, unpacked_data |-> None,
               is_v8file |-> FALSE]

\* The bytes at even offsets of raw_name that are not NUL, in order.
RECURSIVE EvenNonNul(_, _)
EvenNonNul(raw_name, i) ==
    IF i > Len(raw_name) THEN << >>
    ELSE (IF i % 2 = 1 /\ raw_name[i] # 0 THEN << raw_name[i] >> ELSE << >>)
            \o EvenNonNul(raw_name, i + 1)

\* get_name: split_at panics on a header shorter than ElemHeaderBegin::SIZE
\* (the pseudo error "PANIC"); String::from_utf8 fails on a byte that is not
\* ASCII (multi-byte sequences are outside the inputs of this model).
V8Elem_get_name(header) ==
    IF Len(header) < ElemHeaderBegin_SIZE THEN Err("PANIC")
    ELSE With(EvenNonNul(SubSeq(header, ElemHeaderBegin_SIZE + 1, Len(header)), 1),
              LAMBDA v_raw_name :
         IF \E i \in 1..Len(v_raw_name) : v_raw_name[i] >= 128
         THEN Err("FromUtf8Error")
         ELSE Ok(v_raw_name))

\* UTF_16LE.encode of the characters of value (code points below 65536)
RECURSIVE Utf16LE(_)
Utf16LE(value) ==
    IF value = << >> THEN << >>
    ELSE << Head(value) % 256, Head(value) \div 256 >> \o Utf16LE(Tail(value))

\* A set_name that appends the characters as one byte each.
V8Elem_set_name_bytes(header, value) ==
    header \o value \o << 0 >> \o << 0, 0, 0, 0 >>

\* set_name: the header with the encoded name, one NUL and four zero bytes
V8Elem_set_name(header, value) ==
    header \o Utf16LE(value) \o << 0 >> \o << 0, 0, 0, 0 >>

(***************************************************************************)
(* load_file (parser/single.rs): a byte buffer -> Result<V8File>           *)
(***************************************************************************)
RECURSIVE load_file(_, _)
RECURSIVE load_file_elems(_, _, _, _, _)

\* Lines 251-258: the element's data block, empty when it has none.
load_file_elem_data(src, cur_elem) ==
    IF cur_elem.elem_data_addr # V8_MAGIC_NUMBER
    THEN Try(BlockHeader_from_raw_parts(src, cur_elem.elem_data_addr),
             LAMBDA block_header_data :
         RbdResult(read_block_data(src,
             cur_elem.elem_data_addr + BlockHeader_SIZE, block_header_data)))
    ELSE Ok(<< >>)

\* Lines 262-279: the data is inflated if it can be, and loaded as a
\* container if it is one.
load_file_elem_new(elem_block_header_data, out_data, bool_inflate) ==
    With(is_v8file(out_data), LAMBDA is_v8 :
    Try(IF is_v8 THEN load_file(out_data, bool_inflate) ELSE Ok(V8File_new),
        LAMBDA unpacked_data :
    Ok([header |-> elem_block_header_data,
        data |-> Some(out_data),
        unpacked_data |-> Some(unpacked_data),
        is_v8file |-> is_v8])))

\* Lines 240-279: the body of the loop for TOC record cur_elem.
load_file_elem(src, bool_inflate, cur_elem) ==
    Try(BlockHeader_from_raw_parts(src, cur_elem.elem_header_addr),
        LAMBDA elem_block_header :
    IF ~BlockHeader_is_correct(elem_block_header) THEN Err("NotV8File")
    ELSE
    Try(RbdResult(read_block_data(src,
            cur_elem.elem_header_addr + BlockHeader_SIZE, elem_block_header)),
        LAMBDA elem_block_header_data :
    Try(load_file_elem_data(src, cur_elem), LAMBDA elem_block_data :
    With(try_inflate_bytes(elem_block_data), LAMBDA out_data :
    load_file_elem_new(elem_block_header_data, out_data, bool_inflate)))))

\* A loop that passes over a terminator record and goes on with the records
\* after it.
RECURSIVE load_file_elems_skipping(_, _, _, _, _)
load_file_elems_skipping(src, bool_inflate, elems_addrs, i, elems) ==
    IF i > Len(elems_addrs) THEN Ok(elems)
    ELSE IF elems_addrs[i].fffffff # V8_MAGIC_NUMBER
    THEN load_file_elems_skipping(src, bool_inflate, elems_addrs, i + 1, elems)
    ELSE Try(load_file_elem(src, bool_inflate, elems_addrs[i]), LAMBDA e :
         load_file_elems_skipping(src, bool_inflate, elems_addrs, i + 1,
                                  Append(elems, e)))

load_file_elems(src, bool_inflate, elems_addrs, i, elems) ==
    IF i > Len(elems_addrs) THEN Ok(elems)
    ELSE IF elems_addrs[i].fffffff # V8_MAGIC_NUMBER THEN Ok(elems)
    ELSE Try(load_file_elem(src, bool_inflate, elems_addrs[i]), LAMBDA e :
         load_file_elems(src, bool_inflate, elems_addrs, i + 1,
                         Append(elems, e)))

load_file(src, bool_inflate) ==
    Try(get_file_header(src), LAMBDA file_header :
    Try(get_first_block_header(src), LAMBDA first_block_header :
    Try(read_elems_addrs(src, FileHeader_SIZE + BlockHeader_SIZE,
                         first_block_header),
        LAMBDA elems_addrs :
    Try(load_file_elems(src, bool_inflate, elems_addrs, 1, << >>),
        LAMBDA elems :
    Ok([file_header |-> file_header,
        elems_addrs |-> elems_addrs,
        elems |-> elems])))))

(***************************************************************************)
(* The file system under one output location.  A tree is a set of entries  *)
(* [path, kind, data]; a path is the sequence of names below the location, *)
(* << >> being the location (dir_name) itself; a name is a sequence of     *)
(* character codes.  An operation returns [res |-> Result, fs |-> tree].   *)
(***************************************************************************)
FsDir(path) == [path |-> path, kind |-> "dir", data |-> << >>]

FsFile(path, data) == [path |-> path, kind |-> "file", data |-> data]

fs_exists(fs, path) == \E e \in fs : e.path = path

fs_is_dir(fs, path) == \E e \in fs : e.path = path /\ e.kind = "dir"

\* The directory that holds the output location always exists.
fs_parent_is_dir(fs, path) ==
    path = << >> \/ fs_is_dir(fs, SubSeq(path, 1, Len(path) - 1))

\* Path::join: joining the empty name gives the directory itself.
Join(path, name) == IF name = << >> THEN path ELSE Append(path, name)

\* fs::create_dir
fs_create_dir(fs, path) ==
    IF fs_exists(fs, path) \/ ~fs_parent_is_dir(fs, path)
    THEN [res |-> Err("IoError"), fs |-> fs]
    ELSE [res |-> Ok(TRUE), fs |-> fs \cup {FsDir(path)}]

\* fs::File::create(path)?.write_all(data)?
fs_create_write(fs, path, data) ==
    IF fs_is_dir(fs, path) \/ ~fs_parent_is_dir(fs, path)
    THEN [res |-> Err("IoError"), fs |-> fs]
    ELSE [res |-> Ok(TRUE),
          fs |-> {e \in fs : e.path # path} \cup {FsFile(path, data)}]

\* if !p_dir.exists() { fs::create_dir(dir_name)?; }
fs_ensure_dir(fs, path) ==
    IF ~fs_exists(fs, path) THEN fs_create_dir(fs, path)
    ELSE [res |-> Ok(TRUE), fs |-> fs]

\* A Result that fails is returned with the location as it is: r? in an
\* operation on the file system.
TryIn(r, fs, F(_)) ==
    CHOOSE out \in { IF x.ok THEN F(x.val) ELSE [res |-> x, fs |-> fs] :
                      x \in {r} } : TRUE

\* An operation on the file system that fails is returned; after one that
\* succeeds the call goes on with the location it left.
Then(o, F(_)) ==
    CHOOSE out \in { IF x.res.ok THEN F(x.fs) ELSE x : x \in {o} } : TRUE

\* "FileHeader", ".header", ".data"
FileHeaderName == << 70, 105, 108, 101, 72, 101, 97, 100, 101, 114 >>

DotHeader == << 46, 104, 101, 97, 100, 101, 114 >>

DotData == << 46, 100, 97, 116, 97 >>

(***************************************************************************)
(* V8File::save_file_to_folder (container.rs)                              *)
(***************************************************************************)
RECURSIVE save_file_to_folder(_, _, _)
RECURSIVE save_file_elems(_, _, _, _)

\* Lines 566-575: the element is written as a file, or as a directory.
save_file_elem(elem, fs, out_path) ==
    IF ~elem.is_v8file
    THEN IF elem.data.some
         THEN fs_create_write(fs, out_path, elem.data.val)
         ELSE [res |-> Ok(TRUE), fs |-> fs]
    ELSE IF elem.unpacked_data.some
         THEN save_file_to_folder(elem.unpacked_data.val, fs, out_path)
         ELSE [res |-> Ok(TRUE), fs |-> fs]

save_file_elems(elems, i, fs, elem_path) ==
    IF i > Len(elems) THEN [res |-> Ok(TRUE), fs |-> fs]
    ELSE
    TryIn(V8Elem_get_name(elems[i].header), fs, LAMBDA name_elem :
    Then(save_file_elem(elems[i], fs, Join(elem_path, name_elem)), LAMBDA fs1 :
    save_file_elems(elems, i + 1, fs1, elem_path)))

save_file_to_folder(v8file, fs, elem_path) ==
    Then(fs_ensure_dir(fs, elem_path), LAMBDA fs1 :
    save_file_elems(v8file.elems, 1, fs1, elem_path))

(***************************************************************************)
(* process_data (parser/single.rs): src is positioned at pos, the address  *)
(* of the element's data block.                                            *)
(***************************************************************************)
\* Lines 211-219: the inflated data is a container or a file.
process_out_data(out_data, need_unpack, elem_path, fs) ==
    IF is_v8file(out_data)
    THEN TryIn(load_file(out_data, need_unpack), fs, LAMBDA f :
         save_file_to_folder(f, fs, elem_path))
    ELSE fs_create_write(fs, elem_path, out_data)

process_data(src, pos, need_unpack, elem_path, fs) ==
    TryIn(BlockHeader_from_raw_parts(src, pos), fs, LAMBDA header :
    IF ~BlockHeader_is_correct(header)
    THEN [res |-> Err("NotV8File"), fs |-> fs]
    ELSE
    TryIn(RbdResult(read_block_data(src, pos + BlockHeader_SIZE, header)), fs,
          LAMBDA block_data :
    process_out_data(try_inflate_bytes(block_data), need_unpack, elem_path, fs)))

(***************************************************************************)
(* unpack_to_directory_no_load (parser/single.rs)                          *)
(***************************************************************************)
\* Lines 33-45: the header block of the element of TOC record cur_elem.
read_elem_block_data(src, cur_elem) ==
    Try(BlockHeader_from_raw_parts(src, cur_elem.elem_header_addr),
        LAMBDA elem_block_header :
    IF ~BlockHeader_is_correct(elem_block_header) THEN Err("NotV8File")
    ELSE RbdResult(read_block_data(src,
             cur_elem.elem_header_addr + BlockHeader_SIZE, elem_block_header)))

\* Lines 33-57: the body of the loop for TOC record cur_elem.
unpack_to_directory_elem(src, bool_inflate, cur_elem, fs) ==
    TryIn(read_elem_block_data(src, cur_elem), fs, LAMBDA elem_block_data :
    TryIn(V8Elem_get_name(elem_block_data), fs, LAMBDA elem_name :
    IF cur_elem.elem_data_addr # V8_MAGIC_NUMBER
    THEN process_data(src, cur_elem.elem_data_addr, bool_inflate,
                      Join(<< >>, elem_name), fs)
    ELSE [res |-> Ok(TRUE), fs |-> fs]))

RECURSIVE unpack_to_directory_elems(_, _, _, _, _)
unpack_to_directory_elems(src, bool_inflate, elems_addrs, i, fs) ==
    IF i > Len(elems_addrs) THEN [res |-> Ok(TRUE), fs |-> fs]
    ELSE IF elems_addrs[i].fffffff # V8_MAGIC_NUMBER
    THEN [res |-> Ok(TRUE), fs |-> fs]
    ELSE Then(unpack_to_directory_elem(src, bool_inflate, elems_addrs[i], fs),
              LAMBDA fs1 :
         unpack_to_directory_elems(src, bool_inflate, elems_addrs, i + 1, fs1))

unpack_to_directory_no_load(src, fs, bool_inflate) ==
    IF ~is_v8file(src) THEN [res |-> Ok(FALSE), fs |-> fs]
    ELSE
    TryIn(get_first_block_header(src), fs, LAMBDA first_block_header :
    Then(fs_ensure_dir(fs, << >>), LAMBDA fs1 :
    TryIn(read_elems_addrs(src, FileHeader_SIZE + BlockHeader_SIZE,
                           first_block_header), fs1,
          LAMBDA elems_addrs :
    unpack_to_directory_elems(src, bool_inflate, elems_addrs, 1, fs1))))

(***************************************************************************)
(* unpack_to_folder (parser/single.rs)                                     *)
(***************************************************************************)
\* Lines 116-123: the data block of the element is written to <name>.data.
unpack_to_folder_data(src, cur_elem, elem_name, fs) ==
    IF cur_elem.elem_data_addr # V8_MAGIC_NUMBER
    THEN TryIn(BlockHeader_from_raw_parts(src, cur_elem.elem_data_addr), fs,
               LAMBDA block_header_data :
         TryIn(RbdResult(read_block_data(src,
                   cur_elem.elem_data_addr + BlockHeader_SIZE,
                   block_header_data)), fs,
               LAMBDA block_data :
         fs_create_write(fs, Join(<< >>, elem_name \o DotData), block_data)))
    ELSE [res |-> Ok(TRUE), fs |-> fs]

\* Lines 96-124: the body of the loop for TOC record cur_elem.
unpack_to_folder_elem(src, cur_elem, fs) ==
    TryIn(read_elem_block_data(src, cur_elem), fs, LAMBDA elem_block_data :
    TryIn(V8Elem_get_name(elem_block_data), fs, LAMBDA elem_name :
    Then(fs_create_write(fs, Join(<< >>, elem_name \o DotHeader),
                         elem_block_data),
         LAMBDA fs1 :
    unpack_to_folder_data(src, cur_elem, elem_name, fs1))))

RECURSIVE unpack_to_folder_elems(_, _, _, _)
unpack_to_folder_elems(src, elems_addrs, i, fs) ==
    IF i > Len(elems_addrs) THEN [res |-> Ok(TRUE), fs |-> fs]
    ELSE IF elems_addrs[i].fffffff # V8_MAGIC_NUMBER
    THEN [res |-> Ok(TRUE), fs |-> fs]
    ELSE Then(unpack_to_folder_elem(src, elems_addrs[i], fs), LAMBDA fs1 :
         unpack_to_folder_elems(src, elems_addrs, i + 1, fs1))

unpack_to_folder(src, fs) ==
    IF ~is_v8file(src) THEN [res |-> Ok(FALSE), fs |-> fs]
    ELSE
    Then(fs_ensure_dir(fs, << >>), LAMBDA fs1 :
    TryIn(get_file_header(src), fs1, LAMBDA file_header :
    Then(fs_create_write(fs1, << FileHeaderName >>,
                         FileHeader_into_bytes(file_header)),
         LAMBDA fs2 :
    TryIn(get_first_block_header(src), fs2, LAMBDA first_block_header :
    TryIn(read_elems_addrs(src, FileHeader_SIZE + BlockHeader_SIZE,
                           first_block_header), fs2,
          LAMBDA elems_addrs :
    unpack_to_folder_elems(src, elems_addrs, 1, fs2))))))

(***************************************************************************)
(* parser/multi.rs: the bodies of the stages of the pipeline               *)
(***************************************************************************)
\* read_content
read_content(src) ==
    IF ~is_v8file(src) THEN Err("NotV8File")
    ELSE
    Try(get_file_header(src), LAMBDA file_header :
    Try(get_first_block_header(src), LAMBDA first_block_header :
    Try(read_elems_addrs(src, FileHeader_SIZE + BlockHeader_SIZE,
                         first_block_header),
        LAMBDA elems_addrs :
    Ok([file_header |-> file_header, elems_addrs |-> elems_addrs]))))

\* A reader that never reads the data block.
reader_read_no_data(src, cur_elem, v8_elem) == Ok(v8_elem)

\* start_file_reader_thread, lines 131-139: the element with its data block,
\* if it has one.
reader_read_data(src, cur_elem, v8_elem) ==
    IF cur_elem.elem_data_addr # V8_MAGIC_NUMBER
    THEN Try(BlockHeader_from_raw_parts(src, cur_elem.elem_data_addr),
             LAMBDA block_header_data :
         Try(RbdResult(read_block_data(src,
                 cur_elem.elem_data_addr + BlockHeader_SIZE,
                 block_header_data)),
             LAMBDA block_data :
         Ok([v8_elem EXCEPT !.data = Some(block_data)])))
    ELSE Ok(v8_elem)

\* start_file_reader_thread, lines 119-139: the element of TOC record
\* cur_elem, read from the file.
reader_read_elem(src, cur_elem) ==
    Try(BlockHeader_from_raw_parts(src, cur_elem.elem_header_addr),
        LAMBDA elem_block_header :
    IF ~BlockHeader_is_correct(elem_block_header) THEN Err("NotV8File")
    ELSE
    Try(RbdResult(read_block_data(src,
            cur_elem.elem_header_addr + BlockHeader_SIZE, elem_block_header)),
        LAMBDA elem_block_data :
    reader_read_data(src, cur_elem,
                     [V8Elem_new EXCEPT !.header = elem_block_data])))

\* An inflate stage that sends the element on without data when its data
\* cannot be inflated.
inflate_elem_or_none(v8_elem) ==
    IF v8_elem.data.some
    THEN With(inflate_bytes(v8_elem.data.val), LAMBDA r :
         IF r.ok THEN [v8_elem EXCEPT !.data = Some(r.val)]
         ELSE [v8_elem EXCEPT !.data = None])
    ELSE v8_elem

\* start_inflate_thread, lines 21-39: the element sent on.
inflate_elem(v8_elem) ==
    IF v8_elem.data.some
    THEN With(inflate_bytes(v8_elem.data.val), LAMBDA r :
         IF r.ok THEN [v8_elem EXCEPT !.data = Some(r.val)] ELSE v8_elem)
    ELSE v8_elem

\* The outcome of one turn of a stage's loop: the loop goes on, or the
\* function returns res.
Continue(fs) == [returns |-> FALSE, res |-> Ok(TRUE), fs |-> fs]

Return(res, fs) == [returns |-> TRUE, res |-> res, fs |-> fs]

\* The turn ends as the operation o on the file system ended.
Outcome(o) ==
    With(o, LAMBDA op :
    IF op.res.ok THEN Continue(op.fs) ELSE Return(op.res, op.fs))

\* start_file_parse, lines 62-68: the data is a container or a file.
file_parse_data(out_data, bool_inflate, elem_path, fs) ==
    IF is_v8file(out_data)
    THEN TryIn(load_file(out_data, bool_inflate), fs, LAMBDA f :
         save_file_to_folder(f, fs, elem_path))
    ELSE fs_create_write(fs, elem_path, out_data)

\* start_file_parse, lines 57-71
file_parse_elem(v8_elem, fs, bool_inflate) ==
    With(V8Elem_get_name(v8_elem.header), LAMBDA name :
    IF ~name.ok THEN Return(name, fs)
    ELSE IF v8_elem.data.some
    THEN Outcome(file_parse_data(v8_elem.data.val, bool_inflate,
                                 Join(<< >>, name.val), fs))
    ELSE Return(Ok(FALSE), fs))

\* start_file_write, lines 153-164
file_write_elem(v8_elem, fs) ==
    With(V8Elem_get_name(v8_elem.header), LAMBDA elem_name :
    IF ~elem_name.ok THEN Return(elem_name, fs)
    ELSE Outcome(
        Then(fs_create_write(fs, Join(<< >>, elem_name.val \o DotHeader),
                             v8_elem.header),
             LAMBDA fs1 :
        IF v8_elem.data.some
        THEN fs_create_write(fs1, Join(<< >>, elem_name.val \o DotData),
                             v8_elem.data.val)
        ELSE [res |-> Ok(TRUE), fs |-> fs1])))

\* parse_to_folder, lines 81-87: the directory is made if it is not there,
\* then the content is read.  [res, fs] with res the Result of read_content.
parse_to_folder_begin(src, fs) ==
    Then(fs_ensure_dir(fs, << >>), LAMBDA fs1 :
    [res |-> read_content(src), fs |-> fs1])

\* unpack_pipeline, lines 171-177: as above, then FileHeader is written.
unpack_pipeline_begin(src, fs) ==
    Then(fs_ensure_dir(fs, << >>), LAMBDA fs1 :
    TryIn(read_content(src), fs1, LAMBDA c :
    Then(fs_create_write(fs1, << FileHeaderName >>,
                         FileHeader_into_bytes(c.file_header)),
         LAMBDA fs2 :
    [res |-> Ok(c), fs |-> fs2])))

\* A coordinator that returns what the calling thread's stage returned,
\* whatever the threads returned.
coordinator_result_of_writer(r1, r2, result) == result

\* parse_to_folder, lines 97-100, and unpack_pipeline, lines 186-188:
\* r1?; r2?; result
coordinator_result(r1, r2, result) ==
    IF ~r1.ok THEN r1 ELSE IF ~r2.ok THEN r2 ELSE result

(***************************************************************************)
(* std::sync::mpsc::sync_channel(bound): a queue of at most bound items.   *)
(* The code gives every channel the bound 128; the model scales it down,   *)
(* with containers of more elements than the bound.                        *)
(***************************************************************************)
CHANNEL_BOUND == 2

\* A channel without a bound.
channel_unbounded(q) == FALSE

\* send blocks while the channel is full.
channel_full(q) == Len(q) >= CHANNEL_BOUND

\* A stack: the newest item is taken.
channel_recv_newest(q) ==
    [item |-> q[Len(q)], rest |-> SubSeq(q, 1, Len(q) - 1)]

\* recv takes the oldest item.
channel_recv(q) == [item |-> Head(q), rest |-> Tail(q)]

\* An iteration that ends as soon as the sender is dropped, with items left.
channel_sender_dropped(q, sender_dropped) == sender_dropped

\* The iteration over a Receiver ends when the sender is dropped and no
\* item is left.
channel_disconnected(q, sender_dropped) == q = << >> /\ sender_dropped

(***************************************************************************)
(* fs::read_dir: the entries directly under path.  The order of read_dir   *)
(* is not specified; the model lists them by name, ascending or (rev)      *)
(* descending.                                                             *)
(***************************************************************************)
LexLeq(a, b) ==
    \/ a = b
    \/ \E i \in 1..(Min(Len(a), Len(b)) + 1) :
          /\ \A j \in 1..(i - 1) : a[j] = b[j]
          /\ \/ i > Len(a) /\ i <= Len(b)
             \/ i <= Len(a) /\ i <= Len(b) /\ a[i] < b[i]

Children(fs, path) ==
    {e \in fs : /\ Len(e.path) = Len(path) + 1
                /\ SubSeq(e.path, 1, Len(path)) = path}

EntryName(e) == e.path[Len(e.path)]

RECURSIVE SortEntries(_, _)
SortEntries(entries, rev) ==
    IF entries = {} THEN << >>
    ELSE LET first == CHOOSE e \in entries : \A o \in entries :
                          IF rev THEN LexLeq(EntryName(o), EntryName(e))
                          ELSE LexLeq(EntryName(e), EntryName(o))
         IN  << first >> \o SortEntries(entries \ {first}, rev)

read_dir(fs, path, rev) == SortEntries(Children(fs, path), rev)

\* Path::extension: what follows the last '.', unless there is none or the
\* only one is the first character; << >> stands for no extension.
LastDot(name) ==
    LET dots == {i \in 1..Len(name) : name[i] = 46} IN
    IF dots = {} THEN 0 ELSE CHOOSE i \in dots : \A j \in dots : j <= i

extension(name) ==
    IF LastDot(name) <= 1 THEN << >>
    ELSE SubSeq(name, LastDot(name) + 1, Len(name))

\* PathBuf::set_extension("data")
set_extension_data(name) ==
    (IF LastDot(name) <= 1 THEN name ELSE SubSeq(name, 1, LastDot(name) - 1))
        \o DotData

(***************************************************************************)
(* The block writers: builder::save_block_data writes to the output file   *)
(* and returns the count, V8File::save_block_data_to_buffer appends to a   *)
(* buffer.  Both give the bytes of one block.                              *)
(***************************************************************************)
save_block_data(block_data, page_size) ==
    With(IF page_size < Len(block_data) THEN Len(block_data) ELSE page_size,
         LAMBDA page_size_actual :
    BlockHeader_into_bytes(
        BlockHeader_new(Len(block_data), page_size_actual, V8_MAGIC_NUMBER))
        \o block_data \o Zeros(page_size_actual - Len(block_data)))

\* save_block_data, lines 136-150: write_bytes, the count it returns.
save_block_data_count(block_data, page_size) ==
    With(IF page_size < Len(block_data) THEN Len(block_data) ELSE page_size,
         LAMBDA page_size_actual :
    Len(BlockHeader_into_bytes(
            BlockHeader_new(Len(block_data), page_size_actual, V8_MAGIC_NUMBER)))
        + Len(block_data) + (page_size_actual - Len(block_data)))

save_block_data_to_buffer(buffer, block_data, page_size) ==
    With(IF page_size < Len(block_data) THEN Len(block_data) ELSE page_size,
         LAMBDA page_size_actual :
    buffer
        \o BlockHeader_into_bytes(
               BlockHeader_new(Len(block_data), page_size_actual, V8_MAGIC_NUMBER))
        \o block_data \o Zeros(page_size_actual - Len(block_data)))

(***************************************************************************)
(* V8Elem::pack and V8File::get_data (container.rs)                        *)
(***************************************************************************)
RECURSIVE V8File_get_data(_)
RECURSIVE get_data_new_elems(_, _, _)

\* unpacked_data.get_data(), or an empty buffer when there is none
unpacked_get_data(elem) ==
    IF elem.unpacked_data.some THEN V8File_get_data(elem.unpacked_data.val)
    ELSE Ok(<< >>)

\* Lines 636-662: what the element adds to new_elems: its serialized
\* sub-tree if it is flagged as a container, and in every case its own data.
get_data_new_elem(elem) ==
    Try(IF elem.is_v8file THEN unpacked_get_data(elem) ELSE Ok(<< >>),
        LAMBDA data_buffer :
    Ok((IF elem.is_v8file
        THEN << [header |-> elem.header, data |-> Some(data_buffer),
                 unpacked_data |-> None, is_v8file |-> FALSE] >>
        ELSE << >>)
       \o << [header |-> elem.header,
              data |-> Some(IF elem.data.some THEN elem.data.val ELSE << >>),
              unpacked_data |-> None, is_v8file |-> FALSE] >>))

\* Lines 635-663: new_elems after the elements lo..hi, in their order.  (The
\* loops of get_data are unfolded by halves, which keeps the evaluation of
\* a container of many elements shallow.)
get_data_new_elems(elems, lo, hi) ==
    IF lo > hi THEN Ok(<< >>)
    ELSE IF lo = hi THEN get_data_new_elem(elems[lo])
    ELSE Try(get_data_new_elems(elems, lo, (lo + hi) \div 2), LAMBDA first :
         Try(get_data_new_elems(elems, (lo + hi) \div 2 + 1, hi), LAMBDA rest :
         Ok(first \o rest)))

\* Lines 666-675: what cur_elem_addr grows by in the turns lo..hi of the
\* loop over new_elems.
RECURSIVE get_data_advance(_, _, _)
get_data_advance(new_elems, lo, hi) ==
    IF lo > hi THEN 0
    ELSE IF lo = hi
    THEN BlockHeader_SIZE + Len(new_elems[lo].header) + BlockHeader_SIZE
             + (IF new_elems[lo].data.some
                THEN Max(Len(new_elems[lo].data.val), V8_DEFAULT_PAGE_SIZE)
                ELSE 0)
    ELSE get_data_advance(new_elems, lo, (lo + hi) \div 2)
             + get_data_advance(new_elems, (lo + hi) \div 2 + 1, hi)

\* Lines 665-679: the TOC bytes of new_elems[lo..hi], cur_elem_addr being
\* the address before turn lo.
RECURSIVE get_data_addrs(_, _, _, _)
get_data_addrs(new_elems, lo, hi, cur_elem_addr) ==
    IF lo > hi THEN << >>
    ELSE IF lo = hi
    THEN ElemAddr_into_bytes(
             ElemAddr_new(cur_elem_addr + BlockHeader_SIZE
                              + Len(new_elems[lo].header),
                          cur_elem_addr))
    ELSE get_data_addrs(new_elems, lo, (lo + hi) \div 2, cur_elem_addr)
             \o get_data_addrs(new_elems, (lo + hi) \div 2 + 1, hi,
                    cur_elem_addr
                        + get_data_advance(new_elems, lo, (lo + hi) \div 2))

\* Lines 692-702: the data block of the element, if it has data.
get_data_block_data(buffer, elem) ==
    IF elem.data.some
    THEN save_block_data_to_buffer(buffer, elem.data.val,
             Max(Len(elem.data.val), V8_DEFAULT_PAGE_SIZE))
    ELSE buffer

\* Lines 687-703: the bytes the turns lo..hi of the loop append to result:
\* the header block and the data block of each element.
RECURSIVE get_data_blocks(_, _, _)
get_data_blocks(new_elems, lo, hi) ==
    IF lo > hi THEN << >>
    ELSE IF lo = hi
    THEN get_data_block_data(
             save_block_data_to_buffer(<< >>, new_elems[lo].header,
                                       Len(new_elems[lo].header)),
             new_elems[lo])
    ELSE get_data_blocks(new_elems, lo, (lo + hi) \div 2)
             \o get_data_blocks(new_elems, (lo + hi) \div 2 + 1, hi)

V8File_get_data(v8file) ==
    Try(get_data_new_elems(v8file.elems, 1, Len(v8file.elems)),
        LAMBDA new_elems :
    Ok(save_block_data_to_buffer(
           FileHeader_into_bytes(v8file.file_header),
           get_data_addrs(new_elems, 1, Len(new_elems),
               FileHeader_SIZE + BlockHeader_SIZE
                   + Max(ElemAddr_SIZE * Len(v8file.elems),
                         V8_DEFAULT_PAGE_SIZE)),
           V8_DEFAULT_PAGE_SIZE)
         \o get_data_blocks(new_elems, 1, Len(new_elems))))

\* A pack that keeps the nested reference and the flag.
V8Elem_pack_keeping(elem, deflate_) ==
    IF ~elem.is_v8file
    THEN IF deflate_
         THEN Ok([elem EXCEPT !.data =
                     Some(deflate_bytes(IF elem.data.some THEN elem.data.val
                                        ELSE << >>))])
         ELSE Ok(elem)
    ELSE Try(unpacked_get_data(elem), LAMBDA data_buffer :
         Ok([elem EXCEPT
                !.data = Some(IF deflate_ THEN deflate_bytes(data_buffer)
                              ELSE data_buffer)]))

\* A pack that deflates whatever the flag says.
V8Elem_pack_deflating(elem, deflate_) ==
    IF ~elem.is_v8file
    THEN Ok([elem EXCEPT !.data =
                Some(deflate_bytes(IF elem.data.some THEN elem.data.val
                                   ELSE << >>))])
    ELSE Try(unpacked_get_data(elem), LAMBDA data_buffer :
         Ok([elem EXCEPT
                !.unpacked_data = None,
                !.data = Some(deflate_bytes(data_buffer)),
                !.is_v8file = FALSE]))

V8Elem_pack(elem, deflate_) ==
    IF ~elem.is_v8file
    THEN IF deflate_
         THEN Ok([elem EXCEPT !.data =
                     Some(deflate_bytes(IF elem.data.some THEN elem.data.val
                                        ELSE << >>))])
         ELSE Ok(elem)
    ELSE Try(unpacked_get_data(elem), LAMBDA data_buffer :
         Ok([elem EXCEPT
                !.unpacked_data = None,
                !.data = Some(IF deflate_ THEN deflate_bytes(data_buffer)
                              ELSE data_buffer),
                !.is_v8file = FALSE]))

(***************************************************************************)
(* V8File::load_file_from_folder (container.rs)                            *)
(***************************************************************************)
RECURSIVE load_file_from_folder(_, _, _)
RECURSIVE load_folder_entries(_, _, _, _, _)

\* V8Elem::new() with the 20 zero bytes and the name as its header
named_element(name) ==
    [V8Elem_new EXCEPT !.header =
        V8Elem_set_name(Zeros(ElemHeaderBegin_SIZE), name)]

\* Lines 594-610: the element of one directory entry
load_folder_entry(fs, dirname, rev, entry) ==
    IF entry.kind = "dir"
    THEN Try(load_file_from_folder(fs, Append(dirname, EntryName(entry)), rev),
             LAMBDA v8 :
         V8Elem_pack([named_element(EntryName(entry)) EXCEPT
                         !.is_v8file = TRUE, !.unpacked_data = Some(v8)],
                     FALSE))
    ELSE Ok([named_element(EntryName(entry)) EXCEPT
                !.is_v8file = FALSE, !.data = Some(entry.data)])

load_folder_entries(fs, dirname, rev, entries, elems) ==
    IF entries = << >> THEN Ok(elems)
    ELSE Try(load_folder_entry(fs, dirname, rev, Head(entries)), LAMBDA element :
         load_folder_entries(fs, dirname, rev, Tail(entries),
                             Append(elems, element)))

load_file_from_folder(fs, dirname, rev) ==
    Try(load_folder_entries(fs, dirname, rev, read_dir(fs, dirname, rev), << >>),
        LAMBDA elems :
    Ok([file_header |->
            FileHeader_new(V8_MAGIC_NUMBER, V8_DEFAULT_PAGE_SIZE, 0),
        elems_addrs |-> << >>,
        elems |-> elems]))

(***************************************************************************)
(* build_cf_file (builder/mod.rs): directory -> Result<bytes of the file>  *)
(***************************************************************************)
\* process_directory and process_v8file: the element as it is stored
process_directory(fs, dirname, name, rev, no_deflate, element) ==
    Try(load_file_from_folder(fs, Append(dirname, name), rev), LAMBDA v8 :
    V8Elem_pack([element EXCEPT !.is_v8file = TRUE,
                                !.unpacked_data = Some(v8)],
                ~no_deflate))

\* A file stored as it is, never deflated.
process_v8file_stored(entry, no_deflate, element) ==
    V8Elem_pack([element EXCEPT !.is_v8file = FALSE,
                                !.data = Some(entry.data)],
                FALSE)

process_v8file(entry, no_deflate, element) ==
    V8Elem_pack([element EXCEPT !.is_v8file = FALSE,
                                !.data = Some(entry.data)],
                ~no_deflate)

\* The data block of the packed element, nothing when it has no data.
process_data_block(packed) ==
    IF packed.data.some
    THEN save_block_data(packed.data.val, Len(packed.data.val))
    ELSE << >>

\* Lines 206-248: the header block and the data block of one entry, the
\* first at cur_block_addr; acc holds the TOC and the bytes written so far.
process_entry(packed, header_block, cur_block_addr, acc) ==
    [toc |-> Append(acc.toc,
                    ElemAddr_new(cur_block_addr + Len(header_block),
                                 cur_block_addr)),
     file |-> acc.file \o header_block \o process_data_block(packed),
     cur_block_addr |-> cur_block_addr + Len(header_block)
                            + Len(process_data_block(packed))]

\* process_files: [toc, file, cur_block_addr] after the entries are
\* written.
RECURSIVE process_files(_, _, _, _, _, _)
process_files(fs, dirname, rev, no_deflate, entries, acc) ==
    IF entries = << >> THEN Ok(acc)
    ELSE
    With(named_element(EntryName(Head(entries))), LAMBDA element :
    Try(IF Head(entries).kind = "dir"
        THEN process_directory(fs, dirname, EntryName(Head(entries)), rev,
                               no_deflate, element)
        ELSE process_v8file(Head(entries), no_deflate, element),
        LAMBDA packed :
    process_files(fs, dirname, rev, no_deflate, Tail(entries),
        process_entry(packed,
                      save_block_data(element.header, Len(element.header)),
                      acc.cur_block_addr, acc))))

\* Seek to pos and write bytes over what is there.
WriteAt(file, pos, bytes) ==
    SubSeq(file, 1, pos) \o bytes
        \o SubSeq(file, pos + Len(bytes) + 1, Len(file))

RECURSIVE TocBytes(_)
TocBytes(toc) ==
    IF toc = << >> THEN << >>
    ELSE ElemAddr_into_bytes(Head(toc)) \o TocBytes(Tail(toc))

\* Lines 176-193: after the elements, the FileHeader and the TOC block are
\* written at the start of the file.
build_cf_head(written) ==
    With(TocBytes(written.toc), LAMBDA toc_bytes :
    WriteAt(WriteAt(written.file, 0,
                    FileHeader_into_bytes(
                        FileHeader_new(V8_MAGIC_NUMBER, V8_DEFAULT_PAGE_SIZE, 0))),
            FileHeader_SIZE,
            save_block_data(toc_bytes, Len(toc_bytes))))

build_cf_file(fs, rev, no_deflate) ==
    IF ~fs_is_dir(fs, << >>) THEN Err("IoError")
    ELSE
    With(FileHeader_SIZE + BlockHeader_SIZE
             + Max(ElemAddr_SIZE * Len(read_dir(fs, << >>, rev)),
                   V8_DEFAULT_PAGE_SIZE),
         LAMBDA cur_block_addr :
    Try(process_files(fs, << >>, rev, no_deflate, read_dir(fs, << >>, rev),
                      [toc |-> << >>, file |-> Zeros(cur_block_addr),
                       cur_block_addr |-> cur_block_addr]),
        LAMBDA written :
    Ok(build_cf_head(written))))

(***************************************************************************)
(* pack_from_folder (builder/mod.rs): directory -> Result<bytes>           *)
(***************************************************************************)
\* The contents of the file at path.
fs_read(fs, path) == (CHOOSE e \in fs : e.path = path).data

\* prepare_pack_files: the entries with extension "header", each with its
\* data file; fs::metadata fails when the data file does not exist.
RECURSIVE prepare_pack_files(_, _, _)
prepare_pack_files(fs, files, pack_elements) ==
    IF files = << >> THEN Ok(pack_elements)
    ELSE
    With(<< set_extension_data(EntryName(Head(files))) >>, LAMBDA data_file :
    IF ~fs_exists(fs, data_file) THEN Err("IoError")
    ELSE prepare_pack_files(fs, Tail(files),
             Append(pack_elements,
                    [header_file |-> Head(files).data,
                     data_file |-> fs_read(fs, data_file),
                     header_size |-> Len(Head(files).data),
                     data_size |-> Len(fs_read(fs, data_file))])))

RECURSIVE save_elem_addrs_loop(_, _, _)
save_elem_addrs_loop(pack_elems, i, cur_elem_addr) ==
    IF i > Len(pack_elems) THEN << >>
    ELSE
    With(cur_elem_addr + BlockHeader_SIZE + pack_elems[i].header_size,
         LAMBDA elem_data_addr :
    ElemAddr_into_bytes(ElemAddr_new(elem_data_addr, cur_elem_addr))
        \o save_elem_addrs_loop(pack_elems, i + 1,
               elem_data_addr + BlockHeader_SIZE
                   + Max(pack_elems[i].data_size, V8_DEFAULT_PAGE_SIZE)))

save_elem_addrs(pack_elems) ==
    save_block_data(
        save_elem_addrs_loop(pack_elems, 1,
            FileHeader_SIZE + BlockHeader_SIZE
                + Max(ElemAddr_SIZE * Len(pack_elems), V8_DEFAULT_PAGE_SIZE)),
        V8_DEFAULT_PAGE_SIZE)

RECURSIVE save_data(_, _)
save_data(pack_elems, i) ==
    IF i > Len(pack_elems) THEN << >>
    ELSE save_block_data(pack_elems[i].header_file, pack_elems[i].header_size)
            \o save_block_data(pack_elems[i].data_file, V8_DEFAULT_PAGE_SIZE)
            \o save_data(pack_elems, i + 1)

\* The directory entries whose extension is "header"
header_files(fs, rev) ==
    SelectSeq(read_dir(fs, << >>, rev),
              LAMBDA e : extension(EntryName(e)) = Tail(DotHeader))

\* fs::copy(..).expect(..) panics when FileHeader cannot be copied.
pack_from_folder(fs, rev) ==
    IF ~fs_exists(fs, << FileHeaderName >>) THEN Err("PANIC")
    ELSE Try(prepare_pack_files(fs, header_files(fs, rev), << >>),
             LAMBDA pack_elements :
         Ok(fs_read(fs, << FileHeaderName >>) \o save_elem_addrs(pack_elements)
                \o save_data(pack_elements, 1)))

(***************************************************************************)
(* Sizes beyond 32 bits.  The lengths the builder is handed are usize and  *)
(* u64; it turns them into u32 with `as u32`.  A length of 64 bits is      *)
(* [top, h, l], the number top * 2^32 + h * 2^16 + l, and a u32 is [h, l], *)
(* so that every operation below is exact.                                 *)
(***************************************************************************)
U64(top, h, l) == [top |-> top, h |-> h, l |-> l]

\* The u32 of a number below 2^31.
U32(n) == [h |-> n \div 65536, l |-> n % 65536]

\* value > u32::MAX, value > u64::from(u32::MAX)
exceeds_u32(value) == value.top > 0

\* value as u32: the low 32 bits
as_u32(value) == [h |-> value.h, l |-> value.l]

\* a < b on u32
u32_lt(a, b) == a.h < b.h \/ (a.h = b.h /\ a.l < b.l)

\* cmp::max on u32
u32_max(a, b) == IF u32_lt(a, b) THEN b ELSE a

\* a + b on u32: the low 32 bits of the sum, and whether the sum has more.
u32_add(a, b) ==
    [val |-> [h |-> (a.h + b.h + (a.l + b.l) \div 65536) % 65536,
              l |-> (a.l + b.l) % 65536],
     overflow |-> a.h + b.h + (a.l + b.l) \div 65536 >= 65536]

\* a - b on u32, for b <= a
u32_sub(a, b) ==
    [h |-> (65536 + a.h - b.h - (IF a.l < b.l THEN 1 ELSE 0)) % 65536,
     l |-> (65536 + a.l - b.l) % 65536]

\* convert: format!("{:08x}", value) of a u32
convert_u32(value) ==
    SubSeq(convert(value.h), 5, 8) \o SubSeq(convert(value.l), 5, 8)

\* save_block_data (builder/mod.rs, lines 122-151) and
\* V8File::save_block_data_to_buffer (container.rs, lines 708-737) for a
\* block_data of len bytes: the io error of the length check is made and
\* dropped, the length is cut to u32, the BlockHeader is encoded and
\* block_data is written whole, then page_size_actual - block_size zeros.
\* What is returned: Ok, here with the header fields encoded, the bytes of
\* block_data written and the zeros written.
save_block_data_sized(len, page_size) ==
    With(as_u32(len), LAMBDA block_size :
    With(IF u32_lt(page_size, block_size) THEN block_size ELSE page_size,
         LAMBDA page_size_actual :
    Ok([data_size_hex |-> convert_u32(block_size),
        page_size_hex |-> convert_u32(page_size_actual),
        next_page_addr_hex |-> convert(V8_MAGIC_NUMBER),
        data_written |-> len,
        zeros_written |-> u32_sub(page_size_actual, block_size)])))

\* One += on cur_elem_addr.  An addition that overflows panics in a build
\* with overflow checks and wraps in a build without: st.checks says which
\* build it is; st.panic is set once the thread has panicked.
addr_advance(st, by) ==
    With(u32_add(st.cur_elem_addr, by), LAMBDA sum :
    [st EXCEPT !.cur_elem_addr = sum.val,
               !.panic = st.panic \/ (sum.overflow /\ st.checks)])

\* BlockHeader::SIZE + size as u32, the addend of line 85.
header_addend(st, size) ==
    With(u32_add(U32(BlockHeader_SIZE), as_u32(size)), LAMBDA sum :
    addr_advance([st EXCEPT !.panic = st.panic \/ (sum.overflow /\ st.checks)],
                 sum.val))

\* save_elem_addrs, lines 80-96: one turn of the loop.  The io errors of
\* the two length checks are made and dropped.
save_elem_addrs_turn(st, pack_elem) ==
    With(header_addend(st, pack_elem.header_size), LAMBDA st1 :
    With(addr_advance(
             addr_advance(st1, U32(BlockHeader_SIZE)),
             u32_max(as_u32(pack_elem.data_size), U32(V8_DEFAULT_PAGE_SIZE))),
         LAMBDA st2 :
    [st2 EXCEPT !.addrs = Append(st.addrs,
                    [elem_header_addr |-> st.cur_elem_addr,
                     elem_data_addr |-> st1.cur_elem_addr])]))

RECURSIVE save_elem_addrs_turns(_, _, _)
save_elem_addrs_turns(st, pack_elems, i) ==
    IF i > Len(pack_elems) THEN st
    ELSE save_elem_addrs_turns(save_elem_addrs_turn(st, pack_elems[i]),
                               pack_elems, i + 1)

\* save_elem_addrs (builder/mod.rs, lines 67-101) for elements given by
\* their sizes: Ok with the addresses of the TOC records, or the panic of
\* an addition that overflowed.
save_elem_addrs_sized(pack_elems, checks) ==
    With(save_elem_addrs_turns(
             [cur_elem_addr |->
                  U32(FileHeader_SIZE + BlockHeader_SIZE
                          + Max(ElemAddr_SIZE * Len(pack_elems),
                                V8_DEFAULT_PAGE_SIZE)),
              addrs |-> << >>, checks |-> checks, panic |-> FALSE],
             pack_elems, 1),
         LAMBDA st :
    IF st.panic THEN Err("PANIC") ELSE Ok(st.addrs))

(***************************************************************************)
(* Inputs of read_block_data: a chain of pages laid out one after the      *)
(* other from address 0.  Page i is a BlockHeader followed by ps payload   *)
(* bytes; next = 0 stands for V8_MAGIC_NUMBER, next = j for the address of *)
(* page j.  The file may be cut short by `short` bytes, and the header of  *)
(* the last page may have a wrong framing byte.                            *)
(***************************************************************************)
MaxPages == 2

MaxPageSize == 2

MaxData == 4

RECURSIVE PageAddr(_, _)
PageAddr(pages, i) ==
    IF i = 1 THEN 0
    ELSE PageAddr(pages, i - 1) + BlockHeader_SIZE + pages[i - 1].ps

PagePayload(i, n) == [j \in 1..n |-> 100 + 10 * i + j]

PageBytes(pages, i, data_size, bad) ==
    LET next == IF pages[i].next = 0 THEN V8_MAGIC_NUMBER
                ELSE PageAddr(pages, pages[i].next)
        h == BlockHeader_new(data_size, pages[i].ps, next)
    IN  BlockHeader_into_bytes(IF bad THEN [h EXCEPT !.space2 = 0] ELSE h)
            \o PagePayload(i, pages[i].ps)

RECURSIVE ChainBytes(_, _, _, _)
ChainBytes(pages, i, data_size, badLast) ==
    IF i > Len(pages) THEN << >>
    ELSE PageBytes(pages, i, data_size, badLast /\ i = Len(pages) /\ i > 1)
            \o ChainBytes(pages, i + 1, data_size, badLast)

PageChains ==
    UNION { [1..n -> [ps : 0..MaxPageSize, next : 0..n]] : n \in 1..MaxPages }

(***************************************************************************)
(* Input containers.  A container is described by the sequence of its      *)
(* elements, each [name, kind, inner]:                                     *)
(*   "leaf"    a data block of bytes that are no deflate stream            *)
(*   "zleaf"   a data block holding deflate(bytes)                         *)
(*   "zzleaf"  a data block holding deflate(deflate(bytes))                *)
(*   "nodata"  elem_data_addr = V8_MAGIC_NUMBER                            *)
(*   "nested"  a data block holding deflate(container of inner)            *)
(*   "paged"   a data block of two pages linked by next_page_addr          *)
(*   "badhdr"  as leaf, a framing byte of the header block's BlockHeader   *)
(*             is wrong                                                    *)
(*   "baddata" as leaf, a framing byte of the data block's BlockHeader is  *)
(*             wrong                                                       *)
(*   "badname" as leaf, the name holds a byte that is not UTF-8            *)
(*   "cyclic"  a data block of one page with page_size = 0 whose           *)
(*             next_page_addr is the page's own address                    *)
(*   "shorthdr" as leaf, the header block holds fewer bytes than the fixed *)
(*             part of an element header has                               *)
(*   "stop"    as leaf, the trailing field of its TOC record is not        *)
(*             V8_MAGIC_NUMBER: the record ends the TOC for every consumer *)
(* The bytes are laid out as the format has them: FileHeader, the TOC      *)
(* block, then per element its header block and its data block.            *)
(***************************************************************************)
ElemDesc(name, kind, inner) == [name |-> name, kind |-> kind, inner |-> inner]

\* One block of a single page: BlockHeader, data, zero padding to page_size.
BlockBytes(data, page_size, framed) ==
    BlockHeader_into_bytes(
        [BlockHeader_new(Len(data), Max(page_size, Len(data)), V8_MAGIC_NUMBER)
            EXCEPT !.space1 = IF framed THEN SP ELSE 95])
        \o data \o Zeros(Max(page_size, Len(data)) - Len(data))

\* A block of two pages at address addr: the first page holds the first
\* byte of data and links to the second, which holds the rest.
PagedBlockBytes(data, addr) ==
    BlockHeader_into_bytes(
        BlockHeader_new(Len(data), 1, addr + BlockHeader_SIZE + 1))
        \o SubSeq(data, 1, 1)
        \o BlockHeader_into_bytes(
               BlockHeader_new(0, Len(data) - 1, V8_MAGIC_NUMBER))
        \o SubSeq(data, 2, Len(data))

\* The length of a header block shorter than ElemHeaderBegin_SIZE.
ShortHeaderLen == 10

\* The element's header: two timestamps, four reserved bytes, the name in
\* UTF-16LE, four zero bytes.
ElemHeaderBytes(e) ==
    IF e.kind = "shorthdr" THEN [i \in 1..ShortHeaderLen |-> i]
    ELSE
    [i \in 1..ElemHeaderBegin_SIZE |-> i]
        \o (IF e.kind = "badname" THEN << 255, 0 >> ELSE << >>)
        \o Utf16LE(e.name) \o << 0, 0, 0, 0 >>

\* The payload a leaf of this name carries.
LeafBytes(e) == << 65, Head(e.name) >>

RECURSIVE ContainerBytes(_)
RECURSIVE ContainerBody(_, _, _)

ElemDataBytes(e) ==
    IF e.kind = "zleaf" THEN deflate_bytes(LeafBytes(e))
    ELSE IF e.kind = "zzleaf" THEN deflate_bytes(deflate_bytes(LeafBytes(e)))
    ELSE IF e.kind = "nested" THEN deflate_bytes(ContainerBytes(e.inner))
    ELSE LeafBytes(e)

\* The data block of element e laid at address data_addr.
ElemDataBlock(e, data_addr) ==
    IF e.kind = "nodata" THEN << >>
    ELSE IF e.kind = "paged" THEN PagedBlockBytes(ElemDataBytes(e), data_addr)
    ELSE IF e.kind = "cyclic"
    THEN BlockHeader_into_bytes(
             BlockHeader_new(Len(ElemDataBytes(e)), 0, data_addr))
    ELSE BlockBytes(ElemDataBytes(e), 0, e.kind # "baddata")

\* The element's TOC record and its blocks put before those of the rest.
ContainerCons(e, addr, header_block, data_block, rest) ==
    [toc |-> ElemAddr_into_bytes(
                 [elem_header_addr |-> addr,
                  elem_data_addr |-> IF e.kind = "nodata" THEN V8_MAGIC_NUMBER
                                     ELSE addr + Len(header_block),
                  fffffff |-> IF e.kind = "stop" THEN 0
                              ELSE V8_MAGIC_NUMBER]) \o rest.toc,
     blocks |-> header_block \o data_block \o rest.blocks]

\* [toc, blocks]: the TOC bytes and the block bytes of the elements from i
\* on, the first block being laid at address addr.
ContainerBody(es, i, addr) ==
    IF i > Len(es) THEN [toc |-> << >>, blocks |-> << >>]
    ELSE
    With(BlockBytes(ElemHeaderBytes(es[i]), 0, es[i].kind # "badhdr"),
         LAMBDA header_block :
    With(ElemDataBlock(es[i], addr + Len(header_block)), LAMBDA data_block :
    ContainerCons(es[i], addr, header_block, data_block,
        ContainerBody(es, i + 1,
                      addr + Len(header_block) + Len(data_block)))))

ContainerBytes(es) ==
    With(ContainerBody(es, 1,
             FileHeader_SIZE + BlockHeader_SIZE + ElemAddr_SIZE * Len(es)),
         LAMBDA body :
    FileHeader_into_bytes(
        FileHeader_new(V8_MAGIC_NUMBER, V8_DEFAULT_PAGE_SIZE, 0))
        \o BlockBytes(body.toc, 0, TRUE)
        \o body.blocks)

\* "a", "b", "c", ...: the name of the element at place i
NameAt(i) == << 96 + i >>

\* The elements a container of the inputs may start with: one of each kind,
\* the nested ones holding each of Inners.
Inners ==
    { << >>,
      << ElemDesc(<< 120 >>, "zleaf", << >>), ElemDesc(<< 121 >>, "nodata", << >>) >>,
      << ElemDesc(<< 120 >>, "zzleaf", << >>) >>,
      << ElemDesc(<< 122 >>, "nested",
                  << ElemDesc(<< 119 >>, "leaf", << >>) >>) >> }

FirstElems(kinds) ==
    { ElemDesc(NameAt(1), k, << >>) : k \in kinds \ {"nested"} }
        \cup (IF "nested" \in kinds
              THEN { ElemDesc(NameAt(1), "nested", in) : in \in Inners }
              ELSE {})

\* The containers of at most max elements: the first element one of first,
\* the element at a later place i named NameAt(i) and of a kind of later.
Containers(max, first, later) ==
    UNION { { [i \in 1..n |-> IF i = 1 THEN f ELSE ElemDesc(NameAt(i), k[i], << >>)] :
                f \in first, k \in [1..n -> later] } : n \in 0..max }

\* A container all of whose blocks are framed and whose names decode, at
\* every depth.
RECURSIVE ValidDesc(_)
ValidDesc(es) ==
    \A i \in 1..Len(es) :
        /\ es[i].kind \notin {"badhdr", "baddata", "badname", "cyclic",
                               "shorthdr"}
        /\ ValidDesc(es[i].inner)

\* Files that are no container: one shorter than the two leading headers,
\* one whose first BlockHeader has a wrong framing byte.
NotContainers ==
    { Zeros(10),
      [ContainerBytes(<< ElemDesc(NameAt(1), "leaf", << >>) >>)
          EXCEPT ![FileHeader_SIZE + 1] = 0] }

\* The elements of the TOC records before the first record whose trailing
\* field is not V8_MAGIC_NUMBER.
RECURSIVE BeforeTerminator(_, _)
BeforeTerminator(es, i) ==
    IF i > Len(es) \/ es[i].kind = "stop" THEN << >>
    ELSE << es[i] >> \o BeforeTerminator(es, i + 1)

(***************************************************************************)
(* State                                                                   *)
(***************************************************************************)
VARIABLES
    rb_src,     \* read_block_data: the bytes of the source
    rb,         \* read_block_data: the state of the call
    sq,         \* sequential calls: the input, the step, the results so far
    pm,         \* pipeline: the coordinator (input, mode, position, results)
    p_fs,       \* pipeline: the output location
    rd,         \* pipeline: the reader thread
    q1,         \* pipeline: the channel out of the reader thread
    inf,        \* pipeline: the inflate thread
    q2,         \* pipeline: the channel out of the inflate thread
    hist,       \* pipeline: the TOC places of the elements that left each stage
    fn          \* one call of a function of the library: its arguments and result

vars == << rb_src, rb, sq, pm, p_fs, rd, q1, inf, q2, hist, fn >>

blockVars == << rb_src, rb >>

seqVars == << sq >>

pipeVars == << pm, p_fs, rd, q1, inf, q2, hist >>

fnVars == << fn >>

\* The parts of the state a specification does not use.
NoBlock == rb_src = << >> /\ rb = [status |-> "none"]

NoSeq == sq = [step |-> "none"]

NoPipe ==
    /\ pm = [pc |-> "none"]
    /\ p_fs = {}
    /\ rd = [pc |-> "none"]
    /\ q1 = << >>
    /\ inf = [pc |-> "none"]
    /\ q2 = << >>
    /\ hist = << >>

NoFn == fn = [op |-> "none"]

\* The bytes of the chain without the last short bytes of the payload.
CutShort(all, short) ==
    SubSeq(all, 1, Len(all) - Min(short, Len(all) - BlockHeader_SIZE))

InitBlock ==
    /\ \E pages \in PageChains, data_size \in 0..MaxData, short \in 0..1,
          badLast \in BOOLEAN :
          rb_src = CutShort(ChainBytes(pages, 1, data_size, badLast), short)
    /\ rb = [status |-> "call", err |-> "", data_size |-> 0,
             read_in_bytes |-> 0, result |-> << >>,
             local_block_header |-> BlockHeader_from_raw_parts(rb_src, 0).val,
             pos |-> BlockHeader_SIZE]
    /\ NoSeq /\ NoPipe /\ NoFn

\* The caller has decoded block_header and calls read_block_data.
RbdEnter ==
    /\ rb.status = "call"
    /\ rb' = rbd_enter(rb.pos, rb.local_block_header)
    /\ UNCHANGED << rb_src, seqVars, pipeVars, fnVars >>

\* One turn of the while loop.
RbdIter ==
    /\ rb.status = "loop"
    /\ rb' = rbd_iter(rb_src, rb)
    /\ UNCHANGED << rb_src, seqVars, pipeVars, fnVars >>

NextBlock == RbdEnter \/ RbdIter

SpecBlock == InitBlock /\ [][NextBlock]_vars

(***************************************************************************)
(* The sequential entry points, called one after the other as              *)
(* tests/general.rs does: unpack a file, build a file from the directory,  *)
(* unpack the file built.  Every call writes to a location that does not   *)
(* exist yet.                                                              *)
(***************************************************************************)
MaxElems == 2

SeqKinds == {"leaf", "zleaf", "zzleaf", "nodata", "nested", "paged",
             "badhdr", "baddata", "badname"}

SeqLaterKinds == {"leaf", "zzleaf", "nodata", "stop"}

SeqContainers == Containers(MaxElems, FirstElems(SeqKinds), SeqLaterKinds)

NoResult == Err("none")

InitSeq ==
    /\ \E input \in { [desc |-> d, file |-> ContainerBytes(d)] : d \in SeqContainers }
                      \cup { [desc |-> << >>, file |-> f] : f \in NotContainers } :
          sq = [step |-> "start", mode |-> "none", desc |-> input.desc,
                file |-> input.file, dir1 |-> {}, res1 |-> NoResult,
                built |-> NoResult, dir2 |-> {}, res2 |-> NoResult]
    /\ NoBlock /\ NoPipe /\ NoFn

UnpackToFolder ==
    /\ sq.step = "start"
    /\ sq' = With(unpack_to_folder(sq.file, {}), LAMBDA r :
                 [sq EXCEPT !.step = "unpacked", !.mode = "flat",
                            !.dir1 = r.fs, !.res1 = r.res])
    /\ UNCHANGED << blockVars, pipeVars, fnVars >>

UnpackToDirectoryNoLoad ==
    /\ sq.step = "start"
    /\ sq' = With(unpack_to_directory_no_load(sq.file, {}, TRUE), LAMBDA r :
                 [sq EXCEPT !.step = "unpacked", !.mode = "rec",
                            !.dir1 = r.fs, !.res1 = r.res])
    /\ UNCHANGED << blockVars, pipeVars, fnVars >>

PackFromFolder ==
    /\ sq.step = "unpacked" /\ sq.mode = "flat" /\ sq.res1 = Ok(TRUE)
    /\ \E rev \in BOOLEAN :
          sq' = [sq EXCEPT !.step = "built",
                           !.built = pack_from_folder(sq.dir1, rev)]
    /\ UNCHANGED << blockVars, pipeVars, fnVars >>

BuildCfFile ==
    /\ sq.step = "unpacked" /\ sq.mode = "rec" /\ sq.res1 = Ok(TRUE)
    /\ \E rev \in BOOLEAN :
          sq' = [sq EXCEPT !.step = "built",
                           !.built = build_cf_file(sq.dir1, rev, FALSE)]
    /\ UNCHANGED << blockVars, pipeVars, fnVars >>

UnpackToFolderAgain ==
    /\ sq.step = "built" /\ sq.mode = "flat" /\ sq.built.ok
    /\ sq' = With(unpack_to_folder(sq.built.val, {}), LAMBDA r :
                 [sq EXCEPT !.step = "done", !.dir2 = r.fs, !.res2 = r.res])
    /\ UNCHANGED << blockVars, pipeVars, fnVars >>

UnpackToDirectoryNoLoadAgain ==
    /\ sq.step = "built" /\ sq.mode = "rec" /\ sq.built.ok
    /\ sq' = With(unpack_to_directory_no_load(sq.built.val, {}, TRUE),
                 LAMBDA r :
                 [sq EXCEPT !.step = "done", !.dir2 = r.fs, !.res2 = r.res])
    /\ UNCHANGED << blockVars, pipeVars, fnVars >>

NextSeq ==
    \/ UnpackToFolder
    \/ UnpackToDirectoryNoLoad
    \/ PackFromFolder
    \/ BuildCfFile
    \/ UnpackToFolderAgain
    \/ UnpackToDirectoryNoLoadAgain

SpecSeq == InitSeq /\ [][NextSeq]_vars

(***************************************************************************)
(* The pipelined entry points parse_to_folder (reader thread, inflate      *)
(* thread, start_file_parse in the calling thread) and unpack_pipeline     *)
(* (reader thread, start_file_write in the calling thread).  The output    *)
(* location does not exist when the call starts.                           *)
(***************************************************************************)
MaxPipeElems == 3

PipeKinds == {"leaf", "zleaf", "nodata", "nested", "paged",
              "badhdr", "baddata", "badname"}

PipeLaterKinds == {"leaf", "nodata", "badhdr", "stop"}

PipeContainers == Containers(MaxPipeElems, FirstElems(PipeKinds), PipeLaterKinds)

InitPipe ==
    /\ \E input \in { [desc |-> d, file |-> ContainerBytes(d)] : d \in PipeContainers }
                      \cup { [desc |-> << >>, file |-> f] : f \in NotContainers } :
          pm = [pc |-> "start", mode |-> "none", desc |-> input.desc,
                file |-> input.file, result |-> NoResult, r1 |-> NoResult,
                r2 |-> NoResult, ret |-> NoResult]
    /\ p_fs = {}
    /\ rd = [pc |-> "none"]
    /\ q1 = << >>
    /\ inf = [pc |-> "none"]
    /\ q2 = << >>
    /\ hist = [sent1 |-> << >>, sent2 |-> << >>, recv |-> << >>,
               written |-> << >>]
    /\ NoBlock /\ NoSeq /\ NoFn

\* The calling thread has left the loop over its Receiver (it returned from
\* start_file_parse / start_file_write, or it panicked): the Receiver is
\* dropped.
WriterGone == pm.pc \in {"join1", "join2", "ret", "done", "panic"}

ReaderGone == rd.pc = "done"

InflateGone == inf.pc = "done"

\* The Receiver of the reader's channel is dropped.
Q1ReceiverDropped == IF pm.mode = "parse" THEN InflateGone ELSE WriterGone

\* The calling thread after lines 81-87 of parse_to_folder or lines 171-177
\* of unpack_pipeline ended as o: it returns the error, or starts the
\* threads.
PipeStart(mode, o) ==
    /\ pm.pc = "start"
    /\ p_fs' = o.fs
    /\ IF ~o.res.ok
       THEN /\ pm' = [pm EXCEPT !.pc = IF o.res.err = "HANG" THEN "hang"
                                       ELSE "done",
                                !.mode = mode, !.ret = o.res]
            /\ UNCHANGED << rd, inf >>
       ELSE /\ pm' = [pm EXCEPT !.pc = "run", !.mode = mode]
            /\ rd' = [pc |-> "loop", i |-> 1,
                      elems_addrs |-> o.res.val.elems_addrs,
                      v8_elem |-> V8Elem_new, res |-> NoResult]
            /\ inf' = IF mode = "parse"
                      THEN [pc |-> "recv", v8_elem |-> V8Elem_new, idx |-> 0,
                            res |-> NoResult]
                      ELSE inf
    /\ UNCHANGED << q1, q2, hist, blockVars, seqVars, fnVars >>

ParseToFolder ==
    \E o \in { parse_to_folder_begin(pm.file, p_fs) } : PipeStart("parse", o)

UnpackPipeline ==
    \E o \in { unpack_pipeline_begin(pm.file, p_fs) } : PipeStart("unpack", o)

\* The reader thread after reading an element ended as e: it has the
\* element to send, or it returns the error.
reader_after_read(e) ==
    With(e, LAMBDA read :
    IF read.ok THEN [rd EXCEPT !.pc = "send", !.v8_elem = read.val]
    ELSE IF read.err = "HANG" THEN [rd EXCEPT !.pc = "hang"]
    ELSE [rd EXCEPT !.pc = "done", !.res = read])

\* The reader thread: the loop test and the body up to the send.
ReaderRead ==
    /\ rd.pc = "loop"
    /\ rd' = IF rd.i > Len(rd.elems_addrs)
             THEN [rd EXCEPT !.pc = "done", !.res = Ok(TRUE)]
             ELSE IF rd.elems_addrs[rd.i].fffffff # V8_MAGIC_NUMBER
             THEN [rd EXCEPT !.pc = "done", !.res = Ok(TRUE)]
             ELSE reader_after_read(
                      reader_read_elem(pm.file, rd.elems_addrs[rd.i]))
    /\ UNCHANGED << pm, p_fs, q1, inf, q2, hist, blockVars, seqVars, fnVars >>

\* sender.send(v8_elem) with room in the channel
ReaderSend ==
    /\ rd.pc = "send"
    /\ ~Q1ReceiverDropped
    /\ ~channel_full(q1)
    /\ q1' = Append(q1, [v8_elem |-> rd.v8_elem, idx |-> rd.i])
    /\ hist' = [hist EXCEPT !.sent1 = Append(@, rd.i)]
    /\ rd' = [rd EXCEPT !.pc = "loop", !.i = @ + 1]
    /\ UNCHANGED << pm, p_fs, inf, q2, blockVars, seqVars, fnVars >>

\* sender.send(v8_elem).is_err(): break
ReaderSendFails ==
    /\ rd.pc = "send"
    /\ Q1ReceiverDropped
    /\ rd' = [rd EXCEPT !.pc = "done", !.res = Ok(TRUE)]
    /\ UNCHANGED << pm, p_fs, q1, inf, q2, hist, blockVars, seqVars, fnVars >>

\* The inflate thread: the next element of the reader's channel.
InflateRecv ==
    /\ inf.pc = "recv"
    /\ q1 # << >>
    /\ LET m == channel_recv(q1) IN
       /\ q1' = m.rest
       /\ inf' = [inf EXCEPT !.pc = "send",
                             !.v8_elem = inflate_elem(m.item.v8_elem),
                             !.idx = m.item.idx]
    /\ UNCHANGED << pm, p_fs, rd, q2, hist, blockVars, seqVars, fnVars >>

InflateEnd ==
    /\ inf.pc = "recv"
    /\ channel_disconnected(q1, ReaderGone)
    /\ inf' = [inf EXCEPT !.pc = "done", !.res = Ok(TRUE)]
    /\ UNCHANGED << pm, p_fs, rd, q1, q2, hist, blockVars, seqVars, fnVars >>

InflateSend ==
    /\ inf.pc = "send"
    /\ ~WriterGone
    /\ ~channel_full(q2)
    /\ q2' = Append(q2, [v8_elem |-> inf.v8_elem, idx |-> inf.idx])
    /\ hist' = [hist EXCEPT !.sent2 = Append(@, inf.idx)]
    /\ inf' = [inf EXCEPT !.pc = "recv"]
    /\ UNCHANGED << pm, p_fs, rd, q1, blockVars, seqVars, fnVars >>

InflateSendFails ==
    /\ inf.pc = "send"
    /\ WriterGone
    /\ inf' = [inf EXCEPT !.pc = "done", !.res = Ok(TRUE)]
    /\ UNCHANGED << pm, p_fs, rd, q1, q2, hist, blockVars, seqVars, fnVars >>

\* The calling thread after one turn of its loop with outcome o on the
\* element at TOC place idx.
WriterStep(o, idx) ==
    /\ p_fs' = o.fs
    /\ pm' = IF ~o.returns THEN pm
             ELSE IF ~o.res.ok /\ o.res.err = "PANIC"
             THEN [pm EXCEPT !.pc = "panic"]
             ELSE [pm EXCEPT !.pc = "join1", !.result = o.res]
    /\ hist' = [hist EXCEPT !.recv = Append(@, idx),
                            !.written = IF o.returns THEN @ ELSE Append(@, idx)]

\* start_file_parse: one turn of the loop
FileParse ==
    /\ pm.pc = "run" /\ pm.mode = "parse"
    /\ q2 # << >>
    /\ LET m == channel_recv(q2) IN
       /\ q2' = m.rest
       /\ \E o \in { file_parse_elem(m.item.v8_elem, p_fs, TRUE) } :
             WriterStep(o, m.item.idx)
    /\ UNCHANGED << rd, q1, inf, blockVars, seqVars, fnVars >>

FileParseEnd ==
    /\ pm.pc = "run" /\ pm.mode = "parse"
    /\ channel_disconnected(q2, InflateGone)
    /\ pm' = [pm EXCEPT !.pc = "join1", !.result = Ok(TRUE)]
    /\ UNCHANGED << p_fs, rd, q1, inf, q2, hist, blockVars, seqVars, fnVars >>

\* start_file_write: one turn of the loop
FileWrite ==
    /\ pm.pc = "run" /\ pm.mode = "unpack"
    /\ q1 # << >>
    /\ LET m == channel_recv(q1) IN
       /\ q1' = m.rest
       /\ \E o \in { file_write_elem(m.item.v8_elem, p_fs) } :
             WriterStep(o, m.item.idx)
    /\ UNCHANGED << rd, inf, q2, blockVars, seqVars, fnVars >>

FileWriteEnd ==
    /\ pm.pc = "run" /\ pm.mode = "unpack"
    /\ channel_disconnected(q1, ReaderGone)
    /\ pm' = [pm EXCEPT !.pc = "join1", !.result = Ok(TRUE)]
    /\ UNCHANGED << p_fs, rd, q1, inf, q2, hist, blockVars, seqVars, fnVars >>

\* h1.join().unwrap()
JoinReader ==
    /\ pm.pc = "join1"
    /\ ReaderGone
    /\ pm' = [pm EXCEPT !.pc = IF pm.mode = "parse" THEN "join2" ELSE "ret",
                        !.r1 = rd.res,
                        !.r2 = IF pm.mode = "parse" THEN @ ELSE Ok(TRUE)]
    /\ UNCHANGED << p_fs, rd, q1, inf, q2, hist, blockVars, seqVars, fnVars >>

\* h2.join().unwrap()
JoinInflate ==
    /\ pm.pc = "join2"
    /\ InflateGone
    /\ pm' = [pm EXCEPT !.pc = "ret", !.r2 = inf.res]
    /\ UNCHANGED << p_fs, rd, q1, inf, q2, hist, blockVars, seqVars, fnVars >>

\* r1?; r2?; result
PipeReturn ==
    /\ pm.pc = "ret"
    /\ pm' = [pm EXCEPT !.pc = "done",
                        !.ret = coordinator_result(pm.r1, pm.r2, pm.result)]
    /\ UNCHANGED << p_fs, rd, q1, inf, q2, hist, blockVars, seqVars, fnVars >>

NextPipe ==
    \/ ParseToFolder
    \/ UnpackPipeline
    \/ ReaderRead
    \/ ReaderSend
    \/ ReaderSendFails
    \/ InflateRecv
    \/ InflateEnd
    \/ InflateSend
    \/ InflateSendFails
    \/ FileParse
    \/ FileParseEnd
    \/ FileWrite
    \/ FileWriteEnd
    \/ JoinReader
    \/ JoinInflate
    \/ PipeReturn

SpecPipe == InitPipe /\ [][NextPipe]_vars

(***************************************************************************)
(* The pipelined entry points under a fair scheduler, for the questions of *)
(* termination: the inputs of SpecPipe and, besides, containers with an    *)
(* element whose data block never ends and with an element whose header    *)
(* block is too short for a name.  Every thread that can take a step       *)
(* takes one in the end: each thread is an operating system thread of its  *)
(* own (std::thread::spawn; the calling thread).                           *)
(***************************************************************************)
LiveKinds == PipeKinds \cup {"cyclic", "shorthdr"}

LiveLaterKinds == PipeLaterKinds \cup {"cyclic", "shorthdr"}

LiveContainers == Containers(MaxPipeElems, FirstElems(LiveKinds), LiveLaterKinds)

InitLive ==
    /\ \E input \in { [desc |-> d, file |-> ContainerBytes(d)] : d \in LiveContainers }
                      \cup { [desc |-> << >>, file |-> f] : f \in NotContainers } :
          pm = [pc |-> "start", mode |-> "none", desc |-> input.desc,
                file |-> input.file, result |-> NoResult, r1 |-> NoResult,
                r2 |-> NoResult, ret |-> NoResult]
    /\ p_fs = {}
    /\ rd = [pc |-> "none"]
    /\ q1 = << >>
    /\ inf = [pc |-> "none"]
    /\ q2 = << >>
    /\ hist = [sent1 |-> << >>, sent2 |-> << >>, recv |-> << >>,
               written |-> << >>]
    /\ NoBlock /\ NoSeq /\ NoFn

\* The steps of the reader thread, of the inflate thread and of the calling
\* thread.
ReaderThread == ReaderRead \/ ReaderSend \/ ReaderSendFails

InflateThread == InflateRecv \/ InflateEnd \/ InflateSend \/ InflateSendFails

CallingThread ==
    \/ ParseToFolder
    \/ UnpackPipeline
    \/ FileParse
    \/ FileParseEnd
    \/ FileWrite
    \/ FileWriteEnd
    \/ JoinReader
    \/ JoinInflate
    \/ PipeReturn

NextLive == ReaderThread \/ InflateThread \/ CallingThread

SpecPipeLive ==
    /\ InitLive
    /\ [][NextLive]_vars
    /\ WF_vars(ReaderThread)
    /\ WF_vars(InflateThread)
    /\ WF_vars(CallingThread)

(***************************************************************************)
(* Single calls of the functions of the library: each action draws the     *)
(* arguments of one call and keeps them with what the call returned.       *)
(***************************************************************************)
MaxFnElems == 3

FnKinds == {"leaf", "zleaf", "nodata", "nested", "stop", "badhdr"}

FnLaterKinds == {"leaf", "nodata", "stop"}

FnContainers == Containers(MaxFnElems, FirstElems(FnKinds), FnLaterKinds)

\* The files a call is given: the containers with their description, and
\* the files that are no container.
FnFiles ==
    { [desc |-> d, file |-> ContainerBytes(d)] : d \in FnContainers }
        \cup { [desc |-> << >>, file |-> f] : f \in NotContainers }

InitFn == fn = [op |-> "start"] /\ NoBlock /\ NoSeq /\ NoPipe

\* read_elems_addrs(src, &first_block_header), as its callers call it
CallReadElemsAddrs ==
    /\ fn.op = "start"
    /\ \E input \in FnFiles :
          fn' = [op |-> "read_elems_addrs", desc |-> input.desc,
                 src |-> input.file,
                 res |-> Try(get_first_block_header(input.file), LAMBDA h :
                             read_elems_addrs(input.file,
                                 FileHeader_SIZE + BlockHeader_SIZE, h))]
    /\ UNCHANGED << blockVars, seqVars, pipeVars >>

\* load_file(src, bool_inflate)
CallLoadFile ==
    /\ fn.op = "start"
    /\ \E input \in FnFiles, bool_inflate \in BOOLEAN :
          fn' = [op |-> "load_file", desc |-> input.desc, src |-> input.file,
                 bool_inflate |-> bool_inflate,
                 res |-> load_file(input.file, bool_inflate)]
    /\ UNCHANGED << blockVars, seqVars, pipeVars >>

\* A container of one element, the buffers cut from it and the buffers with
\* one byte of its first BlockHeader set to 0.
OneLeaf == ContainerBytes(<< ElemDesc(NameAt(1), "leaf", << >>) >>)

V8Buffers ==
    { SubSeq(OneLeaf, 1, n) :
        n \in { 0, FileHeader_SIZE - 1, FileHeader_SIZE,
                FileHeader_SIZE + BlockHeader_SIZE - 1,
                FileHeader_SIZE + BlockHeader_SIZE, Len(OneLeaf) } }
        \cup { [OneLeaf EXCEPT ![FileHeader_SIZE + k] = 0] :
                 k \in 1..BlockHeader_SIZE }

\* rdr.is_v8file() on a reader at some position, and what process_data does
\* with the buffer after it (single.rs, lines 212-218).
CallIsV8File ==
    /\ fn.op = "start"
    /\ \E buf \in V8Buffers, position \in { 0, 1, FileHeader_SIZE } :
          fn' = [op |-> "is_v8file", src |-> buf, position |-> position,
                 res |-> Cursor_is_v8file(buf, position),
                 out |-> process_out_data(buf, TRUE, << NameAt(1) >>,
                                          { FsDir(<< >>) })]
    /\ UNCHANGED << blockVars, seqVars, pipeVars >>

\* The 31 bytes given to BlockHeader::from_raw_parts: the bytes of a header
\* as BlockHeader::new makes it, and the same with the byte at one place
\* changed.
HeaderBuffers ==
    UNION { { hb } \cup { [hb EXCEPT ![k] = v] :
                            k \in 1..BlockHeader_SIZE, v \in { 0, 10, 13, 32, 70 } } :
            hb \in { BlockHeader_into_bytes(BlockHeader_new(d, d, V8_MAGIC_NUMBER)) :
                       d \in { 0, 26 } } }

\* BlockHeader::from_raw_parts(src)?.is_correct()
CallIsCorrect ==
    /\ fn.op = "start"
    /\ \E buf \in HeaderBuffers :
          fn' = [op |-> "is_correct", src |-> buf,
                 res |-> Try(BlockHeader_from_raw_parts(buf, 0), LAMBDA h :
                             Ok(BlockHeader_is_correct(h)))]
    /\ UNCHANGED << blockVars, seqVars, pipeVars >>

\* The longest name given to set_name, the characters of the names (code
\* points; 1060 is a Cyrillic letter) and the names.
MaxNameLen == 3

NameChars == { 1, 65, 127, 1060 }

FnNames == UNION { [1..n -> NameChars] : n \in 0..MaxNameLen }

\* The fixed part of an element header: ElemHeaderBegin::SIZE bytes.
FnPrefixes == { Zeros(ElemHeaderBegin_SIZE), [i \in 1..ElemHeaderBegin_SIZE |-> 200 + i] }

\* element.set_name(name) on an element whose header is the fixed part, then
\* element.get_name()
CallSetName ==
    /\ fn.op = "start"
    /\ \E prefix \in FnPrefixes, name \in FnNames :
          \E header \in { V8Elem_set_name(prefix, name) } :
               fn' = [op |-> "set_name", prefix |-> prefix, name |-> name,
                      header |-> header, res |-> V8Elem_get_name(header)]
    /\ UNCHANGED << blockVars, seqVars, pipeVars >>

\* The byte buffers given to the decompression adapter: every buffer x of up
\* to MaxInflateLen bytes, the tag byte of a stream among them, as it is and
\* as deflate_bytes(x).
MaxInflateLen == 2

InflateBytes == { 0, 5, 237 }

InflateBuffers == UNION { [1..n -> InflateBytes] : n \in 0..MaxInflateLen }

\* try_inflate_bytes(input), and the element the inflate thread sends on for
\* an element whose data is input.
CallTryInflate ==
    /\ fn.op = "start"
    /\ \E x \in InflateBuffers, deflated \in BOOLEAN :
          \E input \in { IF deflated THEN deflate_bytes(x) ELSE x } :
               fn' = [op |-> "try_inflate_bytes", x |-> x, deflated |-> deflated,
                      src |-> input,
                      res |-> try_inflate_bytes(input),
                      out |-> inflate_elem([V8Elem_new EXCEPT !.data = Some(input)])]
    /\ UNCHANGED << blockVars, seqVars, pipeVars >>

\* What load_file gives for a container of n TOC records, each the record
\* of a nested container without elements: with WideCount of them get_data
\* writes more TOC records than one page of V8_DEFAULT_PAGE_SIZE bytes
\* holds.
WideCount == 22

OneNested ==
    load_file(ContainerBytes(<< ElemDesc(NameAt(1), "nested", << >>) >>), TRUE).val

WideFiles ==
    { [OneNested EXCEPT !.elems = [i \in 1..n |-> OneNested.elems[1]]] :
        n \in { WideCount - 1, WideCount } }

\* load_file(src, bool_inflate)?.get_data()
CallGetData ==
    /\ fn.op = "start"
    /\ \/ \E input \in FnFiles, bool_inflate \in BOOLEAN :
             \E v8 \in { load_file(input.file, bool_inflate) } :
                  /\ v8.ok
                  /\ fn' = [op |-> "get_data", records |-> Len(v8.val.elems),
                            res |-> V8File_get_data(v8.val)]
       \/ \E v8 \in WideFiles :
             fn' = [op |-> "get_data", records |-> Len(v8.elems),
                    res |-> V8File_get_data(v8)]
    /\ UNCHANGED << blockVars, seqVars, pipeVars >>

\* Lengths of 64 bits: small ones, the largest a u32 holds, and lengths
\* that need more than 32 bits.
FnLengths ==
    { U64(0, 0, 0), U64(0, 0, 26), U64(0, 0, 600), U64(0, 32768, 0),
      U64(0, 65535, 65535), U64(1, 0, 0), U64(1, 0, 26) }

\* save_block_data(file_out, block_data, page_size) and
\* save_block_data_to_buffer(buffer, block_data, page_size) for a
\* block_data of len bytes
CallSaveBlockDataSized ==
    /\ fn.op = "start"
    /\ \E len \in FnLengths, page_size \in { U32(0), U32(V8_DEFAULT_PAGE_SIZE) },
          callee \in { "save_block_data", "save_block_data_to_buffer" } :
          fn' = [op |-> "save_block_data_sized", callee |-> callee,
                 len |-> len, page_size |-> page_size,
                 res |-> save_block_data_sized(len, page_size)]
    /\ UNCHANGED << blockVars, seqVars, pipeVars >>

\* The elements save_elem_addrs is given, by the sizes of their files.
MaxSizedElems == 2

SizedElems ==
    UNION { [1..n -> [header_size : { U64(0, 0, 26), U64(0, 65535, 65535), U64(1, 0, 26) },
                      data_size : FnLengths]] : n \in 0..MaxSizedElems }

\* save_elem_addrs(&pack_elems, &mut file_out), in a build with overflow
\* checks or without
CallSaveElemAddrsSized ==
    /\ fn.op = "start"
    /\ \E pack_elems \in SizedElems, checks \in BOOLEAN :
          fn' = [op |-> "save_elem_addrs_sized", pack_elems |-> pack_elems,
                 checks |-> checks,
                 res |-> save_elem_addrs_sized(pack_elems, checks)]
    /\ UNCHANGED << blockVars, seqVars, pipeVars >>

\* The blocks given to the block writers: every block_data of up to
\* MaxBlockLen bytes, with a page size below, at and above its length.
MaxBlockLen == 3

BlockDatas == UNION { [1..n -> { 0, 7 }] : n \in 0..MaxBlockLen }

\* save_block_data(file_out, block_data, page_size), file_out positioned at
\* the end of what is written so far, and
\* save_block_data_to_buffer(buffer, block_data, page_size); the count is
\* what save_block_data returns.
CallSaveBlockData ==
    /\ fn.op = "start"
    /\ \E block_data \in BlockDatas, page_size \in 0..(MaxBlockLen + 1),
          buffer \in { << >>, << 13, 10 >> } :
          \/ fn' = [op |-> "save_block_data", callee |-> "save_block_data",
                    buffer |-> buffer, block_data |-> block_data,
                    page_size |-> page_size,
                    out |-> buffer \o save_block_data(block_data, page_size),
                    count |-> save_block_data_count(block_data, page_size)]
          \/ fn' = [op |-> "save_block_data",
                    callee |-> "save_block_data_to_buffer",
                    buffer |-> buffer, block_data |-> block_data,
                    page_size |-> page_size,
                    out |-> save_block_data_to_buffer(buffer, block_data,
                                                      page_size),
                    count |-> 0]
    /\ UNCHANGED << blockVars, seqVars, pipeVars >>

\* The directories given to build_cf_file: empty, one file, a file and a
\* subdirectory with a file, an empty subdirectory, and a file whose bytes
\* are a deflate stream next to a subdirectory that holds a subdirectory.
FnDirs ==
    { { FsDir(<< >>) },
      { FsDir(<< >>), FsFile(<< << 97 >> >>, << 65, 97 >>) },
      { FsDir(<< >>), FsFile(<< << 97 >> >>, << 65, 97 >>),
        FsDir(<< << 100 >> >>), FsFile(<< << 100 >>, << 120 >> >>, << 7 >>) },
      { FsDir(<< >>), FsDir(<< << 100 >> >>) },
      { FsDir(<< >>), FsFile(<< << 98 >> >>, << 237, 5 >>),
        FsDir(<< << 100 >> >>), FsDir(<< << 100 >>, << 101 >> >>),
        FsFile(<< << 100 >>, << 101 >>, << 120 >> >>, << >>) } }

\* build_cf_file(dirname, filename_out, no_deflate); rev is the order in
\* which read_dir lists the entries.
CallBuildCfFile ==
    /\ fn.op = "start"
    /\ \E dir \in FnDirs, rev \in BOOLEAN, no_deflate \in BOOLEAN :
          fn' = [op |-> "build_cf_file", dir |-> dir, rev |-> rev,
                 no_deflate |-> no_deflate,
                 res |-> build_cf_file(dir, rev, no_deflate)]
    /\ UNCHANGED << blockVars, seqVars, pipeVars >>

\* The elements given to pack: the elements of the containers load_file
\* loads, and for each directory the element load_file_from_folder and
\* process_directory make of it before they call pack.
LoadedElems ==
    UNION { { load_file(f.file, TRUE).val.elems[i] :
                i \in 1..Len(load_file(f.file, TRUE).val.elems) } :
            f \in { g \in FnFiles : load_file(g.file, TRUE).ok } }

FolderElems ==
    { [named_element(<< 100 >>) EXCEPT
          !.is_v8file = TRUE,
          !.unpacked_data = Some(load_file_from_folder(dir, << >>, FALSE).val)] :
        dir \in FnDirs }

\* element.pack(deflate_)
CallPack ==
    /\ fn.op = "start"
    /\ \E elem \in LoadedElems \cup FolderElems, deflate_ \in BOOLEAN :
          fn' = [op |-> "pack", elem |-> elem, deflate_ |-> deflate_,
                 res |-> V8Elem_pack(elem, deflate_)]
    /\ UNCHANGED << blockVars, seqVars, pipeVars >>

\* Fields of 8 bytes for the hex getters: a numeral, a numeral in capitals,
\* and fields that are no hexadecimal numeral: letters that are no digits,
\* spaces, a sign before the digits, a byte that cannot occur in UTF-8.
HexFields ==
    { convert(2), << 48, 48, 48, 48, 48, 48, 48, 65 >>,
      [i \in 1..8 |-> 122], [i \in 1..8 |-> 32],
      << 43, 48, 48, 48, 48, 48, 48, 50 >>, << 45, 48, 48, 48, 48, 48, 48, 50 >>,
      << 48, 48, 48, 255, 48, 48, 48, 50 >> }

\* The header of a block of two bytes in one page, the field at place which
\* (1 data_size, 2 page_size, 3 next_page_addr) replaced by field.
HeaderWithField(field, which) ==
    [BlockHeader_new(2, 2, V8_MAGIC_NUMBER) EXCEPT
        !.data_size_hex = IF which = 1 THEN field ELSE @,
        !.page_size_hex = IF which = 2 THEN field ELSE @,
        !.next_page_addr_hex = IF which = 3 THEN field ELSE @]

\* The getter of both crates on the field, and read_block_data on a block
\* whose header holds the field.
CallGetU32 ==
    /\ fn.op = "start"
    /\ \E field \in HexFields, which \in 1..3 :
          fn' = [op |-> "get_u32", field |-> field, which |-> which,
                 lenient |-> BlockHeader_get_u32_lenient(field),
                 strict |-> BlockHeader_get_u32(field),
                 res |-> RbdResult(read_block_data(
                            BlockHeader_into_bytes(HeaderWithField(field, which))
                                \o << 65, 66 >>,
                            BlockHeader_SIZE, HeaderWithField(field, which)))]
    /\ UNCHANGED << blockVars, seqVars, pipeVars >>

\* The records decoded from a source, by name, with their sizes.
RecordSize(record) ==
    IF record = "FileHeader" THEN FileHeader_SIZE
    ELSE IF record = "BlockHeader" THEN BlockHeader_SIZE
    ELSE ElemAddr_SIZE

RecordFromRawParts(record, bytes, pos) ==
    IF record = "FileHeader" THEN FileHeader_from_raw_parts(bytes, pos)
    ELSE IF record = "BlockHeader" THEN BlockHeader_from_raw_parts(bytes, pos)
    ELSE ElemAddr_from_raw_parts(bytes, pos)

\* FileHeader, BlockHeader and ElemAddr::from_raw_parts on a source of len
\* bytes read from position: every number of remaining bytes from none to
\* one more than the record.
CallDecode ==
    /\ fn.op = "start"
    /\ \E record \in { "FileHeader", "BlockHeader", "ElemAddr" },
          position \in 0..1 :
          \E len \in position..(position + RecordSize(record) + 1) :
             fn' = [op |-> "from_raw_parts", record |-> record,
                    src |-> [i \in 1..len |-> 48 + (i % 10)],
                    position |-> position,
                    res |-> RecordFromRawParts(record,
                                [i \in 1..len |-> 48 + (i % 10)], position)]
    /\ UNCHANGED << blockVars, seqVars, pipeVars >>

\* The data sizes and page sizes of the TOC blocks given to
\* read_elems_addrs: whole records and records with bytes left over.
TocSizes == { 0, 11, 12, 13, 24, 25 }

\* read_elems_addrs on a file whose TOC block has the given data_size and
\* page_size in one page, the page being all there.
CallReadToc ==
    /\ fn.op = "start"
    /\ \E data_size \in TocSizes, page_size \in TocSizes :
          \E file \in { FileHeader_into_bytes(
                             FileHeader_new(V8_MAGIC_NUMBER, V8_DEFAULT_PAGE_SIZE, 0))
                           \o BlockHeader_into_bytes(
                                  BlockHeader_new(data_size, page_size,
                                                  V8_MAGIC_NUMBER))
                           \o [i \in 1..Max(data_size, page_size) |-> i] } :
               fn' = [op |-> "read_toc", data_size |-> data_size,
                      page_size |-> page_size, src |-> file,
                      res |-> Try(get_first_block_header(file), LAMBDA h :
                                  read_elems_addrs(file,
                                      FileHeader_SIZE + BlockHeader_SIZE, h))]
    /\ UNCHANGED << blockVars, seqVars, pipeVars >>

\* Containers with an element whose header block is correctly framed and
\* holds fewer bytes than the fixed part of an element header.
ShortFiles ==
    { ContainerBytes(<< ElemDesc(NameAt(1), "shorthdr", << >>) >>),
      ContainerBytes(<< ElemDesc(NameAt(1), "leaf", << >>),
                        ElemDesc(NameAt(2), "shorthdr", << >>) >>) }

\* get_name on an element whose header has len bytes, from none to a fixed
\* part followed by the name "a" and the four closing bytes.
CallGetName ==
    /\ fn.op = "start"
    /\ \E len \in 0..(ElemHeaderBegin_SIZE + 6) :
          \E header \in { [i \in 1..len |->
                             IF i = ElemHeaderBegin_SIZE + 1 THEN 97 ELSE 0] } :
             fn' = [op |-> "get_name", header |-> header,
                    res |-> V8Elem_get_name(header)]
    /\ UNCHANGED << blockVars, seqVars, pipeVars >>

\* The unpack operations of one thread on a container of ShortFiles, the
\* output location being empty.
CallUnpackShort ==
    /\ fn.op = "start"
    /\ \E src \in ShortFiles :
          \/ fn' = [op |-> "unpack_short", callee |-> "unpack_to_folder",
                    src |-> src, res |-> unpack_to_folder(src, {}).res]
          \/ fn' = [op |-> "unpack_short",
                    callee |-> "unpack_to_directory_no_load",
                    src |-> src,
                    res |-> unpack_to_directory_no_load(src, {}, TRUE).res]
          \/ fn' = [op |-> "unpack_short", callee |-> "save_file_to_folder",
                    src |-> src,
                    res |-> TryIn(load_file(src, TRUE), {}, LAMBDA f :
                                save_file_to_folder(f, {}, << >>)).res]
    /\ UNCHANGED << blockVars, seqVars, pipeVars >>

NextFn ==
    \/ CallReadElemsAddrs
    \/ CallLoadFile
    \/ CallIsV8File
    \/ CallIsCorrect
    \/ CallSetName
    \/ CallTryInflate
    \/ CallGetData
    \/ CallSaveBlockDataSized
    \/ CallSaveElemAddrsSized
    \/ CallSaveBlockData
    \/ CallBuildCfFile
    \/ CallPack
    \/ CallGetU32
    \/ CallDecode
    \/ CallReadToc
    \/ CallGetName
    \/ CallUnpackShort

SpecFn == InitFn /\ [][NextFn]_vars

(***************************************************************************)
(* C4: whenever read_block_data returns Ok, the result holds exactly       *)
(* data_size bytes (never fewer, never more), also when a page has         *)
(* next_page_addr = V8_MAGIC_NUMBER while bytes are still remaining.       *)
(***************************************************************************)
C4_ExactlyDataSize ==
    rb.status = "ok" => Len(rb.result) = rb.data_size

\* The input is a valid container given by its description.
SeqValid == ValidDesc(sq.desc) /\ sq.file = ContainerBytes(sq.desc)

(***************************************************************************)
(* C2: flat round trip.  For a valid container, unpack_to_folder, then     *)
(* pack_from_folder on the directory, then unpack_to_folder on the file    *)
(* built all succeed, and the second directory equals the first, also when *)
(* the container has elements without a data block.                        *)
(***************************************************************************)
C2_FlatRoundTrip ==
    (sq.mode = "flat" /\ SeqValid) =>
        /\ sq.step \in {"unpacked", "built", "done"} => sq.res1 = Ok(TRUE)
        /\ sq.step \in {"built", "done"} => sq.built.ok
        /\ sq.step = "done" => sq.res2 = Ok(TRUE) /\ sq.dir2 = sq.dir1

NoNestedDeflateStream(dir) ==
    \A e \in dir :
        (e.kind = "file" /\ Len(e.path) >= 2) => ~inflate_bytes(e.data).ok

C9_FramingMismatchAborts ==
    (/\ sq.step # "start"
     /\ sq.file = ContainerBytes(sq.desc)
     /\ \E i \in 1..Len(sq.desc) : sq.desc[i].kind \in {"badhdr", "baddata"})
        => ~sq.res1.ok

\* The input of the pipeline is a valid container given by its description.
PipeValid == ValidDesc(pm.desc) /\ pm.file = ContainerBytes(pm.desc)

(***************************************************************************)
(* C1: for a valid container, parse_to_folder returns what                 *)
(* unpack_to_directory_no_load returns on the same file and leaves the     *)
(* same files and directories with the same contents, also when an element *)
(* has no data block.                                                      *)
(***************************************************************************)
C1_PipelineEqualsSequential ==
    (pm.pc = "done" /\ pm.mode = "parse" /\ PipeValid) =>
        With(unpack_to_directory_no_load(pm.file, {}, TRUE), LAMBDA s :
             pm.ret = s.res /\ p_fs = s.fs)

\* The thread that receives from the reader's channel is waiting for an item.
Q1ReceiverWaits ==
    IF pm.mode = "parse" THEN inf.pc = "recv" ELSE pm.pc = "run"

(***************************************************************************)
(* C5: backpressure.  In every reachable state each channel holds at most  *)
(* CHANNEL_BOUND items; while a channel is full its producer adds nothing  *)
(* and stays at its send (unless the receiver is gone); while a channel is *)
(* empty and its sender is still there, its consumer stays where it is.    *)
(***************************************************************************)
C5_Backpressure ==
    /\ [](Len(q1) <= CHANNEL_BOUND /\ Len(q2) <= CHANNEL_BOUND)
    /\ [][/\ (Len(q1) >= CHANNEL_BOUND /\ rd.pc = "send" /\ ~Q1ReceiverDropped)
               => (rd' = rd /\ Len(q1') <= Len(q1))
          /\ (Len(q2) >= CHANNEL_BOUND /\ inf.pc = "send" /\ ~WriterGone)
               => (inf' = inf /\ Len(q2') <= Len(q2))
          /\ (q1 = << >> /\ ~ReaderGone /\ Q1ReceiverWaits /\ pm.mode = "parse")
               => inf' = inf
          /\ (q1 = << >> /\ ~ReaderGone /\ Q1ReceiverWaits /\ pm.mode = "unpack")
               => (pm' = pm /\ p_fs' = p_fs)
          /\ (q2 = << >> /\ ~InflateGone /\ pm.mode = "parse" /\ pm.pc = "run")
               => (pm' = pm /\ p_fs' = p_fs)]_vars

\* The reader has an element to send and its channel is full.
C5_Witness ==
    rd.pc = "send" /\ Len(q1) = CHANNEL_BOUND /\ ~Q1ReceiverDropped

\* The TOC places in h are 1, 2, 3, ... in this order.
InTocOrder(h) == \A j \in 1..Len(h) : h[j] = j

(***************************************************************************)
(* C6: pipeline ordering.  Under every interleaving, the elements sent by  *)
(* the reader, those sent by the inflate thread and those received by      *)
(* start_file_parse / start_file_write are a prefix of the TOC, in TOC     *)
(* order.                                                                  *)
(***************************************************************************)
C6_PipelineOrder ==
    /\ InTocOrder(hist.sent1)
    /\ InTocOrder(hist.sent2)
    /\ InTocOrder(hist.recv)

\* Three elements went through the three stages.
C6_Witness ==
    pm.mode = "parse" /\ Len(hist.recv) >= 3 /\ hist.sent2 = hist.sent1

\* The reader thread returned an error.
ReaderFailed == rd.pc = "done" /\ ~rd.res.ok

(***************************************************************************)
(* C7: reader failure.  If the reader fails at TOC entry k, it has sent    *)
(* the elements of the entries before k and nothing else; every element it *)
(* sent is still written by the downstream stages; the coordinator returns *)
(* the reader's error.                                                     *)
(***************************************************************************)
C7_ReaderFailure ==
    (pm.pc = "done" /\ ReaderFailed) =>
        /\ hist.sent1 = [j \in 1..(rd.i - 1) |-> j]
        /\ hist.written = hist.sent1
        /\ pm.ret = rd.res

(***************************************************************************)
(* C7 as amended: if the reader fails at TOC entry k, it has sent the      *)
(* elements of the entries before k and nothing else, and the coordinator  *)
(* returns the reader's error; the stage in the calling thread sees the    *)
(* channel closed only after it received every element sent, so when it    *)
(* ended by seeing the channel closed every element sent is written; when  *)
(* it stopped by itself at an element (an error in that element, or the    *)
(* return of start_file_parse at an element without data), what it         *)
(* received and wrote is a prefix of what was sent.                        *)
(***************************************************************************)
C7_ReaderFailureAmended ==
    (pm.pc = "done" /\ ReaderFailed) =>
        /\ hist.sent1 = [j \in 1..(rd.i - 1) |-> j]
        /\ pm.ret = rd.res
        /\ pm.result = Ok(TRUE) => hist.written = hist.sent1
        /\ hist.written = SubSeq(hist.sent1, 1, Len(hist.written))
        /\ hist.recv = SubSeq(hist.sent1, 1, Len(hist.recv))

\* The reader failed at the third entry; the two elements it had sent are
\* written and its error is returned.
C7_Witness ==
    /\ pm.pc = "done" /\ ReaderFailed
    /\ Len(hist.sent1) = 2
    /\ hist.written = hist.sent1
    /\ pm.ret = rd.res

(***************************************************************************)
(* C8: when parse_to_folder or unpack_pipeline returns after starting its  *)
(* threads, every thread has been joined, and the value returned is the    *)
(* error of the reader if it failed, else the error of the inflate thread  *)
(* if it failed, else the result of the stage in the calling thread.       *)
(***************************************************************************)
C8_JoinAndFirstFailure ==
    pm.pc = "done" =>
        /\ rd.pc \in {"none", "done"}
        /\ inf.pc \in {"none", "done"}
        /\ rd.pc = "done" =>
              pm.ret = IF ~rd.res.ok THEN rd.res
                       ELSE IF inf.pc = "done" /\ ~inf.res.ok THEN inf.res
                       ELSE pm.result

\* The reader and the stage in the calling thread both failed, with
\* different errors; the reader's error is returned.
C8_Witness ==
    /\ pm.pc = "done" /\ ReaderFailed
    /\ ~pm.result.ok /\ pm.result # rd.res
    /\ pm.ret = rd.res

(***************************************************************************)
(* C10: on a file that is no container (is_v8file is false), an unpack     *)
(* entry point returns false or NotV8File and leaves the output location   *)
(* as it was: nothing is created, not even the output directory.  Here:    *)
(* parse_to_folder and unpack_pipeline.                                    *)
(***************************************************************************)
C10_NotAContainer ==
    (pm.pc = "done" /\ ~is_v8file(pm.file)) =>
        /\ pm.ret \in {Ok(FALSE), Err("NotV8File")}
        /\ p_fs = {}

\* The directory a flat unpack of the container of description es leaves:
\* FileHeader, and for every element before the first terminator record its
\* header block in <name>.header and, if it has a data block, the bytes of
\* that block as they are in the file in <name>.data.
ExpectedFlatDir(file, es) ==
    { FsDir(<< >>), FsFile(<< FileHeaderName >>, SubSeq(file, 1, FileHeader_SIZE)) }
        \cup { FsFile(<< es[i].name \o DotHeader >>, ElemHeaderBytes(es[i])) :
                 i \in 1..Len(es) }
        \cup { FsFile(<< es[i].name \o DotData >>, ElemDataBytes(es[i])) :
                 i \in { j \in 1..Len(es) : es[j].kind # "nodata" } }

(***************************************************************************)
(* C11: for a valid container, unpack_pipeline leaves the directory that   *)
(* unpack_to_folder leaves and returns what it returns: FileHeader, and    *)
(* per TOC entry before the first terminator record <name>.header and,     *)
(* exactly when the entry has a data block, <name>.data with the bytes of  *)
(* the block, not inflated.                                                *)
(***************************************************************************)
C11_FlatPipelineEqualsSequential ==
    (pm.pc = "done" /\ pm.mode = "unpack" /\ PipeValid) =>
        /\ With(unpack_to_folder(pm.file, {}), LAMBDA s :
                pm.ret = s.res /\ p_fs = s.fs)
        /\ p_fs = ExpectedFlatDir(pm.file, BeforeTerminator(pm.desc, 1))

\* unpack_pipeline has returned on a container with a deflated element, an
\* element without data and a terminator record.
C11_Witness ==
    /\ pm.pc = "done" /\ pm.mode = "unpack" /\ PipeValid
    /\ Len(pm.desc) = 3
    /\ pm.desc[1].kind = "zleaf" /\ pm.desc[2].kind = "nodata"
    /\ pm.desc[3].kind = "stop"
    /\ pm.ret = Ok(TRUE)

\* The call of the function was given a valid container.
FnValid == ValidDesc(fn.desc) /\ fn.src = ContainerBytes(fn.desc)

\* The names of the entries directly under the output location.
TopNames(fs) == { e.path[1] : e \in { x \in fs : Len(x.path) = 1 } }

(***************************************************************************)
(* C12: TOC dual policy.  read_elems_addrs returns one record for each 12  *)
(* bytes of the TOC block, whatever the trailing fields are; load_file     *)
(* returns exactly one element per record before the first record whose    *)
(* trailing field is not V8_MAGIC_NUMBER, in TOC order, and keeps all the  *)
(* records; unpack_to_folder and unpack_to_directory_no_load process       *)
(* exactly those records; the records after the terminator are never       *)
(* processed, although their trailing field is V8_MAGIC_NUMBER.            *)
(***************************************************************************)
C12_TocDualPolicy ==
    /\ (fn.op = "read_elems_addrs" /\ FnValid) =>
          /\ fn.res.ok
          /\ Len(fn.res.val) = Len(fn.desc)
          /\ \A i \in 1..Len(fn.desc) :
                (fn.res.val[i].fffffff = V8_MAGIC_NUMBER)
                    = (fn.desc[i].kind # "stop")
    /\ (fn.op = "load_file" /\ FnValid) =>
          With(BeforeTerminator(fn.desc, 1), LAMBDA processed :
          /\ fn.res.ok
          /\ Len(fn.res.val.elems_addrs) = Len(fn.desc)
          /\ Len(fn.res.val.elems) = Len(processed)
          /\ \A i \in 1..Len(processed) :
                fn.res.val.elems[i].header = ElemHeaderBytes(processed[i])
          /\ unpack_to_folder(fn.src, {}).fs
                = ExpectedFlatDir(fn.src, processed)
          /\ TopNames(unpack_to_directory_no_load(fn.src, {}, TRUE).fs)
                = { processed[i].name :
                      i \in { j \in 1..Len(processed) :
                                processed[j].kind # "nodata" } })

\* load_file was called on a container whose second TOC record is a
\* terminator and whose third record has the trailing field
\* V8_MAGIC_NUMBER: it returned the first element only.
C12_Witness ==
    /\ fn.op = "load_file" /\ FnValid
    /\ Len(fn.desc) = 3
    /\ fn.desc[2].kind = "stop" /\ fn.desc[3].kind = "leaf"
    /\ fn.res.ok /\ Len(fn.res.val.elems) = 1
    /\ Len(fn.res.val.elems_addrs) = 3

\* The framing bytes of the 31 bytes b are CR LF .. SP .. SP .. SP CR LF.
FramingOk(b) ==
    /\ b[1] = 13 /\ b[2] = 10
    /\ b[11] = 32 /\ b[20] = 32 /\ b[29] = 32
    /\ b[30] = 13 /\ b[31] = 10

(***************************************************************************)
(* C13: nested-container detection.  is_v8file on a buffer is true iff the *)
(* buffer holds at least 16 + 31 bytes and the 31 bytes at offset 16 have  *)
(* the framing of a BlockHeader; the result is the same wherever the       *)
(* reader stood before the call; a buffer for which it is false is written *)
(* as a file with the bytes of the buffer.                                 *)
(***************************************************************************)
C13_NestedDetection ==
    fn.op = "is_v8file" =>
        /\ fn.res = (/\ Len(fn.src) >= 16 + 31
                     /\ FramingOk(SubSeq(fn.src, 17, 47)))
        /\ fn.res = Cursor_is_v8file(fn.src, 0)
        /\ ~fn.res => /\ fn.out.res = Ok(TRUE)
                      /\ FsFile(<< NameAt(1) >>, fn.src) \in fn.out.fs

\* is_v8file was called with the reader inside the buffer, on a container
\* with one framing byte of its first BlockHeader changed: it is written as
\* a file.
C13_Witness ==
    /\ fn.op = "is_v8file" /\ fn.position > 0
    /\ ~fn.res /\ Len(fn.src) = Len(OneLeaf)
    /\ FsFile(<< NameAt(1) >>, fn.src) \in fn.out.fs

\* The places (from 1) of the hex fields in the 31 bytes of a BlockHeader.
HexPlaces == (3..10) \cup (12..19) \cup (21..28)

(***************************************************************************)
(* C14: BlockHeader::is_correct is true iff every framing byte of the 31   *)
(* bytes has its canonical value (bytes 0-1 CR LF, bytes 10, 19, 28 space, *)
(* bytes 29-30 CR LF); one framing byte changed makes it false; the 24     *)
(* bytes of the hex fields do not influence the result.                    *)
(***************************************************************************)
C14_IsCorrect ==
    fn.op = "is_correct" =>
        /\ fn.res.ok
        /\ fn.res.val = FramingOk(fn.src)
        /\ fn.res.val = BlockHeader_is_correct(BlockHeader_from_raw_parts(
               [i \in 1..Len(fn.src) |->
                    IF i \in HexPlaces THEN 48 ELSE fn.src[i]], 0).val)

\* is_correct was called on a header whose space after the last hex field
\* is changed, and nothing else: it is false.
C14_Witness ==
    /\ fn.op = "is_correct" /\ fn.res = Ok(FALSE)
    /\ fn.src[29] # 32
    /\ FramingOk([fn.src EXCEPT ![29] = 32])

\* Every character of name is an ASCII character other than NUL.
AsciiNonNul(name) == \A i \in 1..Len(name) : name[i] \in 1..127

(***************************************************************************)
(* C15: name round trip.  For a name of ASCII characters other than NUL,   *)
(* get_name of the header made of the 20 fixed bytes and set_name(name) is *)
(* that name; set_name leaves the first 20 bytes as they were and appends  *)
(* the UTF-16LE code units of the name (for such a name: the character and *)
(* a zero byte each), one NUL byte and four zero bytes.                    *)
(***************************************************************************)
C15_NameRoundTrip ==
    (fn.op = "set_name" /\ AsciiNonNul(fn.name)) =>
        /\ fn.res = Ok(fn.name)
        /\ SubSeq(fn.header, 1, ElemHeaderBegin_SIZE) = fn.prefix
        /\ Len(fn.header) = 20 + 2 * Len(fn.name) + 1 + 4
        /\ \A i \in 1..Len(fn.name) :
              /\ fn.header[20 + 2 * i - 1] = fn.name[i]
              /\ fn.header[20 + 2 * i] = 0
        /\ \A i \in (20 + 2 * Len(fn.name) + 1)..Len(fn.header) : fn.header[i] = 0

\* A name of three ASCII characters came back from a header whose fixed part
\* is not zero.
C15_Witness ==
    /\ fn.op = "set_name" /\ AsciiNonNul(fn.name) /\ Len(fn.name) = MaxNameLen
    /\ fn.prefix[1] # 0
    /\ fn.res = Ok(fn.name)

(***************************************************************************)
(* C16: compression fallback.  try_inflate_bytes and the inflate stage of  *)
(* the pipeline give back the input bytes as they are whenever the input   *)
(* is no raw-deflate stream, and give x for the input deflate(x); the      *)
(* result is always a byte buffer, never an error.                         *)
(***************************************************************************)
C16_InflateFallback ==
    fn.op = "try_inflate_bytes" =>
        /\ fn.res \in Seq(0..255)
        /\ fn.out.data.some /\ fn.out.data.val \in Seq(0..255)
        /\ ~inflate_bytes(fn.src).ok =>
              fn.res = fn.src /\ fn.out.data.val = fn.src
        /\ fn.deflated => fn.res = fn.x /\ fn.out.data.val = fn.x
        /\ fn.out.header = V8Elem_new.header

\* A buffer of two bytes that is no deflate stream came back as it is.
C16_Witness ==
    /\ fn.op = "try_inflate_bytes" /\ ~fn.deflated
    /\ ~inflate_bytes(fn.src).ok /\ Len(fn.src) = 2
    /\ fn.res = fn.src /\ fn.out.data = Some(fn.src)

\* The number of TOC records of the file built: the data_size of the TOC
\* block at FileHeader::SIZE over ElemAddr::SIZE.
TocCount(bytes) ==
    BlockHeader_get_data_size(
        BlockHeader_from_raw_parts(bytes, FileHeader_SIZE).val).val \div ElemAddr_SIZE

\* Field k (0: elem_header_addr, 1: elem_data_addr) of TOC record i.
TocField(bytes, i, k) ==
    FromU32LE(SubSeq(bytes,
        FileHeader_SIZE + BlockHeader_SIZE + ElemAddr_SIZE * (i - 1) + 4 * k + 1,
        FileHeader_SIZE + BlockHeader_SIZE + ElemAddr_SIZE * (i - 1) + 4 * k + 4))

\* A correct BlockHeader starts at byte offset off of bytes.
IsBlockAt(bytes, off) ==
    /\ off + BlockHeader_SIZE <= Len(bytes)
    /\ BlockHeader_is_correct(BlockHeader_from_raw_parts(bytes, off).val)
    /\ BlockHeader_get_page_size(BlockHeader_from_raw_parts(bytes, off).val).ok

\* The offset after the block (of one page) that starts at off.
BlockEnd(bytes, off) ==
    off + BlockHeader_SIZE
        + BlockHeader_get_page_size(BlockHeader_from_raw_parts(bytes, off).val).val

\* The header block of the first element starts at first; for every record
\* i the header block of element i starts at the record's elem_header_addr,
\* which is where the data block of element i - 1 ends, its data block
\* follows it and starts at the record's elem_data_addr; the last data
\* block ends the file.
BlocksLaidOut(bytes, n, first) ==
    /\ \A i \in 1..n :
          /\ TocField(bytes, i, 0) =
                 IF i = 1 THEN first
                 ELSE BlockEnd(bytes, TocField(bytes, i - 1, 1))
          /\ IsBlockAt(bytes, TocField(bytes, i, 0))
          /\ TocField(bytes, i, 1) = BlockEnd(bytes, TocField(bytes, i, 0))
          /\ IsBlockAt(bytes, TocField(bytes, i, 1))
    /\ Len(bytes) = IF n = 0 THEN first ELSE BlockEnd(bytes, TocField(bytes, n, 1))

BuiltOffsetsOk(bytes) ==
    /\ IsBlockAt(bytes, FileHeader_SIZE)
    /\ BlocksLaidOut(bytes, TocCount(bytes),
           16 + 31 + Max(12 * TocCount(bytes), 512))

(***************************************************************************)
(* C17: builder offset consistency.  In the bytes V8File::get_data,        *)
(* pack_from_folder and build_cf_file give, for every TOC record i,        *)
(* elem_header_addr is the offset where the BlockHeader of the header      *)
(* block of element i starts and elem_data_addr the offset where the       *)
(* BlockHeader of its data block starts; the first header block starts at  *)
(* 16 + 31 + max(12 * number of TOC records, 512); the blocks follow one   *)
(* another, header block then data block, element after element.           *)
(***************************************************************************)
C17_BuilderOffsets ==
    /\ (fn.op = "get_data" /\ fn.res.ok) => BuiltOffsetsOk(fn.res.val)
    /\ (sq.step \in {"built", "done"} /\ sq.built.ok) => BuiltOffsetsOk(sq.built.val)

\* The same for the files of at most 42 TOC records.
C17_UpToOnePage ==
    /\ (fn.op = "get_data" /\ fn.res.ok /\ TocCount(fn.res.val) <= 42)
          => BuiltOffsetsOk(fn.res.val)
    /\ (sq.step \in {"built", "done"} /\ sq.built.ok) => BuiltOffsetsOk(sq.built.val)

\* a + b on lengths of 64 bits, exact (the sums here stay far below 2^64).
u64_add(a, b) ==
    [top |-> a.top + b.top + (a.h + b.h + (a.l + b.l) \div 65536) \div 65536,
     h |-> (a.h + b.h + (a.l + b.l) \div 65536) % 65536,
     l |-> (a.l + b.l) % 65536]

\* The larger of two lengths of 64 bits.
u64_max(a, b) ==
    IF a.top < b.top \/ (a.top = b.top /\ u32_lt(as_u32(a), as_u32(b)))
    THEN b ELSE a

\* The offset of the header block of element i in the file the sizes give,
\* without any cut to 32 bits.
RECURSIVE ExactHeaderAddr(_, _)
ExactHeaderAddr(pack_elems, i) ==
    IF i = 1
    THEN U64(0, 0, FileHeader_SIZE + BlockHeader_SIZE
                      + Max(ElemAddr_SIZE * Len(pack_elems), V8_DEFAULT_PAGE_SIZE))
    ELSE u64_add(u64_add(ExactHeaderAddr(pack_elems, i - 1),
                         u64_add(U64(0, 0, 2 * BlockHeader_SIZE),
                                 pack_elems[i - 1].header_size)),
                 u64_max(pack_elems[i - 1].data_size,
                         U64(0, 0, V8_DEFAULT_PAGE_SIZE)))

\* The same for the data block of element i.
ExactDataAddr(pack_elems, i) ==
    u64_add(ExactHeaderAddr(pack_elems, i),
            u64_add(U64(0, 0, BlockHeader_SIZE), pack_elems[i].header_size))

(***************************************************************************)
(* C18: 32-bit guard.  A call of save_block_data,                          *)
(* save_block_data_to_buffer or save_elem_addrs that is handed a header or *)
(* data size that does not fit in 32 bits returns an error, and does so    *)
(* before a BlockHeader is encoded or an offset advanced; no size is cut   *)
(* to its low 32 bits and no running offset wraps around: a call that      *)
(* returns Ok has encoded the sizes it was given and the offsets the sizes *)
(* give.                                                                   *)
(***************************************************************************)
C18_Guard32 ==
    /\ fn.op = "save_block_data_sized" =>
          /\ exceeds_u32(fn.len) => ~fn.res.ok
          /\ fn.res.ok =>
                /\ ~exceeds_u32(fn.len)
                /\ fn.res.val.data_size_hex = convert_u32(as_u32(fn.len))
    /\ fn.op = "save_elem_addrs_sized" =>
          /\ (\E i \in 1..Len(fn.pack_elems) :
                 \/ exceeds_u32(fn.pack_elems[i].header_size)
                 \/ exceeds_u32(fn.pack_elems[i].data_size))
                => ~fn.res.ok /\ fn.res.err # "PANIC"
          /\ fn.res.ok =>
                \A i \in 1..Len(fn.pack_elems) :
                    /\ ExactHeaderAddr(fn.pack_elems, i)
                          = U64(0, fn.res.val[i].elem_header_addr.h,
                                fn.res.val[i].elem_header_addr.l)
                    /\ ExactDataAddr(fn.pack_elems, i)
                          = U64(0, fn.res.val[i].elem_data_addr.h,
                                fn.res.val[i].elem_data_addr.l)

(***************************************************************************)
(* C19: load_file returns the error NotV8File whenever the BlockHeader     *)
(* that follows the FileHeader of its source does not pass is_correct, on  *)
(* every source it is called on; it then reads no TOC and returns no tree. *)
(***************************************************************************)
C19_LoadFileChecksFirstBlock ==
    (/\ fn.op = "load_file"
     /\ get_first_block_header(fn.src).ok
     /\ ~BlockHeader_is_correct(get_first_block_header(fn.src).val))
        => fn.res = Err("NotV8File")

\* The block the writer added to fn.buffer: what follows the buffer in fn.out.
WrittenHeader == BlockHeader_from_raw_parts(fn.out, Len(fn.buffer))

\* The writer added 31 + max(p, len(b)) bytes: a correct BlockHeader with
\* data_size = len(b), page_size = max(p, len(b)), next_page_addr =
\* 0x7fffffff, then b, then zeros; save_block_data returned that count;
\* the header decoded and read_block_data on what follows give b.
BlockWrittenOk ==
    /\ Len(fn.out) = Len(fn.buffer) + 31 + Max(fn.page_size, Len(fn.block_data))
    /\ SubSeq(fn.out, 1, Len(fn.buffer)) = fn.buffer
    /\ fn.callee = "save_block_data" =>
          fn.count = 31 + Max(fn.page_size, Len(fn.block_data))
    /\ WrittenHeader.ok /\ FramingOk(SubSeq(fn.out, Len(fn.buffer) + 1, Len(fn.buffer) + 31))
    /\ BlockHeader_get_data_size(WrittenHeader.val) = Ok(Len(fn.block_data))
    /\ BlockHeader_get_page_size(WrittenHeader.val)
          = Ok(Max(fn.page_size, Len(fn.block_data)))
    /\ BlockHeader_get_next_page_addr(WrittenHeader.val) = Ok(2147483647)
    /\ \A i \in 1..(Len(fn.out) - Len(fn.buffer) - 31) :
          fn.out[Len(fn.buffer) + 31 + i] =
              IF i <= Len(fn.block_data) THEN fn.block_data[i] ELSE 0
    /\ RbdResult(read_block_data(fn.out, Len(fn.buffer) + BlockHeader_SIZE,
                                 WrittenHeader.val)) = Ok(fn.block_data)

\* The same for a block_data given by its length of 64 bits: the header
\* holds the length, and 31 + max(p, len) bytes are written.
BlockWrittenSizedOk ==
    /\ fn.res.ok
    /\ U64(0, HexNumber(SubSeq(fn.res.val.data_size_hex, 1, 4), 4),
              HexNumber(SubSeq(fn.res.val.data_size_hex, 5, 8), 4)) = fn.len
    /\ u64_add(fn.res.val.data_written,
               U64(0, fn.res.val.zeros_written.h, fn.res.val.zeros_written.l))
          = u64_max(fn.len, U64(0, fn.page_size.h, fn.page_size.l))

(***************************************************************************)
(* C20: block write layout and write/read round trip.  For every byte      *)
(* sequence b and page size p, save_block_data and                         *)
(* save_block_data_to_buffer write exactly 31 + max(p, len(b)) bytes: one  *)
(* correct BlockHeader with data_size = len(b), page_size = max(p, len(b)) *)
(* and next_page_addr = 0x7fffffff, then b, then zeros; save_block_data    *)
(* returns that count; BlockHeader::from_raw_parts on the header and       *)
(* read_block_data on what follows give back b.                            *)
(***************************************************************************)
C20_BlockWriteRoundTrip ==
    /\ fn.op = "save_block_data" => BlockWrittenOk
    /\ fn.op = "save_block_data_sized" => BlockWrittenSizedOk

\* The same for the lengths that fit in 32 bits.
C20_Within32Bits ==
    /\ fn.op = "save_block_data" => BlockWrittenOk
    /\ (fn.op = "save_block_data_sized" /\ ~exceeds_u32(fn.len))
          => BlockWrittenSizedOk

\* The payload of a directory entry: the contents of a file, the serialized
\* nested container of a subdirectory.
EntryPayload(fs, rev, entry) ==
    IF entry.kind = "dir"
    THEN V8File_get_data(load_file_from_folder(fs, entry.path, rev).val).val
    ELSE entry.data

\* The data of the data block of TOC record i of the file built.
BuiltDataBlock(bytes, i) ==
    RbdResult(read_block_data(bytes, TocField(bytes, i, 1) + BlockHeader_SIZE,
        BlockHeader_from_raw_parts(bytes, TocField(bytes, i, 1)).val))

(***************************************************************************)
(* C21: no-compression flag.  In the file build_cf_file writes, the data   *)
(* block of each top-level element holds deflate(payload) when no_deflate  *)
(* is false and the payload as it is when no_deflate is true; the payload  *)
(* is the contents of the file for a file entry and the serialized nested  *)
(* container for a subdirectory entry.                                     *)
(***************************************************************************)
C21_NoDeflateFlag ==
    (fn.op = "build_cf_file" /\ fn.res.ok) =>
        /\ TocCount(fn.res.val) = Len(read_dir(fn.dir, << >>, fn.rev))
        /\ \A i \in 1..TocCount(fn.res.val) :
              BuiltDataBlock(fn.res.val, i) =
                  Ok(IF fn.no_deflate
                     THEN EntryPayload(fn.dir, fn.rev,
                                       read_dir(fn.dir, << >>, fn.rev)[i])
                     ELSE deflate_bytes(EntryPayload(fn.dir, fn.rev,
                                       read_dir(fn.dir, << >>, fn.rev)[i])))

\* A directory with a file and a subdirectory was built with no_deflate:
\* the data block of the subdirectory is a container as it is.
C21_Witness ==
    /\ fn.op = "build_cf_file" /\ fn.res.ok /\ fn.no_deflate
    /\ TocCount(fn.res.val) = 2
    /\ \E i \in 1..2 :
          /\ read_dir(fn.dir, << >>, fn.rev)[i].kind = "dir"
          /\ BuiltDataBlock(fn.res.val, i).ok
          /\ is_v8file(BuiltDataBlock(fn.res.val, i).val)

(***************************************************************************)
(* C22: tree collapse.  After pack(deflate) returned Ok on an element      *)
(* flagged as a nested container, the data of the element is the           *)
(* serialized nested container (get_data of the sub-tree, deflated iff     *)
(* deflate is true), its nested reference is None, its flag is false and   *)
(* its header is as before; after pack(false) on a leaf the element is as  *)
(* before.                                                                 *)
(***************************************************************************)
C22_TreeCollapse ==
    (fn.op = "pack" /\ fn.res.ok) =>
        /\ (fn.elem.is_v8file /\ fn.elem.unpacked_data.some) =>
              /\ V8File_get_data(fn.elem.unpacked_data.val).ok
              /\ fn.res.val.data.some
              /\ (IF fn.deflate_ THEN inflate_bytes(fn.res.val.data.val)
                  ELSE Ok(fn.res.val.data.val))
                    = V8File_get_data(fn.elem.unpacked_data.val)
              /\ fn.res.val.unpacked_data = None
              /\ fn.res.val.is_v8file = FALSE
              /\ fn.res.val.header = fn.elem.header
        /\ (~fn.elem.is_v8file /\ ~fn.deflate_) => fn.res.val = fn.elem

\* An element flagged as a container, with a sub-tree of elements, was
\* packed with deflate: its data is a deflate stream of a container.
C22_Witness ==
    /\ fn.op = "pack" /\ fn.res.ok /\ fn.deflate_
    /\ fn.elem.is_v8file /\ fn.elem.unpacked_data.some
    /\ Len(fn.elem.unpacked_data.val.elems) >= 2
    /\ fn.res.val.unpacked_data = None
    /\ is_v8file(inflate_bytes(fn.res.val.data.val).val)

\* The 8 bytes are hexadecimal digits.
IsHexNumeral(field) ==
    \A i \in 1..Len(field) :
        field[i] \in (48..57) \cup (65..70) \cup (97..102)

(***************************************************************************)
(* C23: hex-field decoding policy.  For every field of 8 bytes that is no  *)
(* hexadecimal numeral, the getters of the older crate give 0, and never   *)
(* fail or panic, and the getters of v8unpack4rs give an error, which      *)
(* read_block_data returns to its caller without any bytes.                *)
(***************************************************************************)
C23_HexPolicy ==
    (fn.op = "get_u32" /\ ~IsHexNumeral(fn.field)) =>
        /\ fn.lenient = Ok(0)
        /\ ~fn.strict.ok
        /\ fn.res = fn.strict

\* The same for the fields made of ASCII characters none of which is a
\* sign.
C23_AsciiUnsigned ==
    (/\ fn.op = "get_u32" /\ ~IsHexNumeral(fn.field)
     /\ \A i \in 1..8 : fn.field[i] < 128 /\ fn.field[i] # 43) =>
        /\ fn.lenient = Ok(0)
        /\ ~fn.strict.ok
        /\ fn.res = fn.strict

(***************************************************************************)
(* C24: short-read decoding.  Decoding a FileHeader (16 bytes), a          *)
(* BlockHeader (31 bytes) or an ElemAddr (12 bytes) from a source with     *)
(* fewer bytes left than the record has returns an error, never a record;  *)
(* and read_elems_addrs fails for a TOC block whose data_size is no        *)
(* multiple of 12 instead of dropping the bytes left over.                 *)
(***************************************************************************)
C24_ShortRead ==
    /\ (/\ fn.op = "from_raw_parts"
        /\ Len(fn.src) - fn.position
              < (IF fn.record = "FileHeader" THEN 16
                 ELSE IF fn.record = "BlockHeader" THEN 31 ELSE 12))
          => ~fn.res.ok
    /\ (fn.op = "read_toc" /\ fn.data_size % 12 # 0) => ~fn.res.ok

\* The same, for the TOC blocks whose page holds the whole data_size.
C24_WholePage ==
    /\ (/\ fn.op = "from_raw_parts"
        /\ Len(fn.src) - fn.position
              < (IF fn.record = "FileHeader" THEN 16
                 ELSE IF fn.record = "BlockHeader" THEN 31 ELSE 12))
          => ~fn.res.ok
    /\ (/\ fn.op = "read_toc" /\ fn.data_size % 12 # 0
        /\ fn.page_size >= fn.data_size) => ~fn.res.ok

\* No element of the input, at the top level, has a data block that never
\* ends or a header block too short for a name.
LiveDescEnds ==
    \A i \in 1..Len(pm.desc) : pm.desc[i].kind \notin {"cyclic", "shorthdr"}

(***************************************************************************)
(* C25: pipeline termination.  For every finite TOC and every outcome of   *)
(* the stages, all threads of the pipeline terminate and the joins of the  *)
(* calling thread return: the call comes back.                             *)
(***************************************************************************)
C25_PipelineTerminates == <>(pm.pc = "done")

\* The same for the inputs whose blocks all end and whose header blocks
\* all hold a name: whatever the stages' outcomes, a stage that stops early
\* included, the call comes back.
C25_TerminatesWhenBlocksEnd == LiveDescEnds => <>(pm.pc = "done")

\* A sender blocked on a full queue whose receiver is dropped fails, and
\* its thread ends with success.
C25_SendFailsEndsProducer ==
    [][(ReaderSendFails => rd'.pc = "done" /\ rd'.res = Ok(TRUE))
       /\ (InflateSendFails => inf'.pc = "done" /\ inf'.res = Ok(TRUE))]_vars

(***************************************************************************)
(* C26: read_block_data terminates on every input.  Each turn of its loop  *)
(* either strictly increases the number of bytes read or ends the loop,    *)
(* also for page chains that hold a page with page_size = 0 or whose       *)
(* next_page_addr links form a cycle.                                      *)
(***************************************************************************)
C26_LoopProgress ==
    [][RbdIter => \/ rb'.read_in_bytes > rb.read_in_bytes
                  \/ rb'.status # "loop"]_vars

\* The same, for the turns that read from a page with page_size > 0.
C26_ProgressOnPages ==
    [][(/\ RbdIter
        /\ BlockHeader_get_page_size(rb.local_block_header).ok
        /\ BlockHeader_get_page_size(rb.local_block_header).val > 0)
          => \/ rb'.read_in_bytes > rb.read_in_bytes
             \/ rb'.status # "loop"]_vars

(***************************************************************************)
(* C27: V8File::get_data writes exactly one TOC record (and one pair of    *)
(* header block and data block) per element of the container, elements     *)
(* whose nested flag is true included, so that the TOC size taken from the *)
(* element count for the first offset is the size of the TOC written.      *)
(***************************************************************************)
C27_OneRecordPerElement ==
    (fn.op = "get_data" /\ fn.res.ok) => TocCount(fn.res.val) = fn.records

\* Every element gives at least one record and at most two.
C27_OneOrTwoRecords ==
    (fn.op = "get_data" /\ fn.res.ok)
        => /\ fn.records <= TocCount(fn.res.val)
           /\ TocCount(fn.res.val) <= 2 * fn.records

\* What the reader thread returns once the stage after it has stopped at
\* TOC record i: it reads record i + 1, fails there if the read fails, and
\* otherwise finds its channel closed.
ReaderAfterStop(file, elems_addrs, i) ==
    IF i + 1 > Len(elems_addrs) THEN Ok(TRUE)
    ELSE IF elems_addrs[i + 1].fffffff # V8_MAGIC_NUMBER THEN Ok(TRUE)
    ELSE With(reader_read_elem(file, elems_addrs[i + 1]), LAMBDA e :
         IF e.ok THEN Ok(TRUE) ELSE e)

\* [ret, fs]: the value returned and the location left by the schedule in
\* which every stage handles an element as soon as it has it, from TOC
\* record i on.
RECURSIVE ElementByElement(_, _, _, _, _)
ElementByElement(mode, file, elems_addrs, i, fs) ==
    IF i > Len(elems_addrs) \/ elems_addrs[Min(i, Len(elems_addrs))].fffffff
                                  # V8_MAGIC_NUMBER
    THEN [ret |-> coordinator_result(Ok(TRUE), Ok(TRUE), Ok(TRUE)), fs |-> fs]
    ELSE
    With(reader_read_elem(file, elems_addrs[i]), LAMBDA e :
    IF ~e.ok
    THEN [ret |-> coordinator_result(e, Ok(TRUE), Ok(TRUE)), fs |-> fs]
    ELSE
    With(IF mode = "parse" THEN file_parse_elem(inflate_elem(e.val), fs, TRUE)
         ELSE file_write_elem(e.val, fs), LAMBDA o :
    IF ~o.returns THEN ElementByElement(mode, file, elems_addrs, i + 1, o.fs)
    ELSE [ret |-> coordinator_result(ReaderAfterStop(file, elems_addrs, i),
                                     Ok(TRUE), o.res),
          fs |-> o.fs]))

\* The same for the whole call on an empty location.
PipelineOutcome(mode, file) ==
    With(IF mode = "parse" THEN parse_to_folder_begin(file, {})
         ELSE unpack_pipeline_begin(file, {}), LAMBDA o :
    IF ~o.res.ok THEN [ret |-> o.res, fs |-> o.fs]
    ELSE ElementByElement(mode, file, o.res.val.elems_addrs, 1, o.fs))

(***************************************************************************)
(* C28: pipeline determinism.  For a fixed input file and an output        *)
(* directory that starts empty, every interleaving of the reader, inflate  *)
(* and writer/parser stages ends with the same contents of the output      *)
(* directory and the same value returned, also when the reader fails at a  *)
(* TOC entry: the ones of the schedule that handles element by element.    *)
(***************************************************************************)
C28_Deterministic ==
    pm.pc = "done"
        => /\ p_fs = PipelineOutcome(pm.mode, pm.file).fs
           /\ pm.ret = PipelineOutcome(pm.mode, pm.file).ret

\* The contents of the output directory are the same in every
\* interleaving.
C28_SameDirectory ==
    pm.pc = "done" => p_fs = PipelineOutcome(pm.mode, pm.file).fs

\* The value returned is the same in every interleaving in which the
\* writer/parser stage ran until its channel was closed.
C28_SameValueUnlessStopped ==
    (pm.pc = "done" /\ hist.recv = hist.written)
        => pm.ret = PipelineOutcome(pm.mode, pm.file).ret

\* The element-by-element schedule is one of the interleavings: its outcome
\* is reached for an input on which another interleaving ends otherwise.
C28_ReferenceReached ==
    /\ pm.pc = "done"
    /\ Len(pm.desc) = 3
    /\ pm.desc[1].kind = "badname" /\ pm.desc[3].kind = "badhdr"
    /\ pm.ret = PipelineOutcome(pm.mode, pm.file).ret

\* The TOC places of the items of a queue, oldest first.
QueueIdx(q) == [k \in 1..Len(q) |-> q[k].idx]

\* The TOC place of the item the inflate thread holds between its receive
\* and its send.
InflateHolds ==
    IF pm.mode = "parse" /\ inf.pc = "send" THEN << inf.idx >> ELSE << >>

\* The element the reader thread reads for TOC record idx.
ElemRead(idx) == reader_read_elem(pm.file, rd.elems_addrs[idx]).val

\* v8_elem is elem after the inflate stage: the header bytes are the same,
\* data that is absent stays absent, data that inflates is replaced by its
\* inflated form and other data is kept.
InflatedFrom(v8_elem, elem) ==
    /\ v8_elem.header = elem.header
    /\ v8_elem.data =
          IF ~elem.data.some THEN None
          ELSE IF inflate_bytes(elem.data.val).ok
          THEN Some(inflate_bytes(elem.data.val).val)
          ELSE elem.data

\* Every item in flight is what the stages before its place made of the
\* element of its TOC record.
ItemsInFlightOk ==
    /\ \A k \in 1..Len(q1) : q1[k].v8_elem = ElemRead(q1[k].idx)
    /\ \A k \in 1..Len(q2) : InflatedFrom(q2[k].v8_elem, ElemRead(q2[k].idx))
    /\ (pm.mode = "parse" /\ inf.pc = "send")
          => InflatedFrom(inf.v8_elem, ElemRead(inf.idx))

(***************************************************************************)
(* C29: exactly-once delivery.  As long as no downstream stage has         *)
(* stopped, every element the reader stage enqueues reaches the            *)
(* writer/parser stage exactly once: what was sent is what was received    *)
(* followed by what is in flight, in TOC order, whether a queue is full or *)
(* empty.  The inflate stage sends on one item per item received, the      *)
(* header bytes unchanged, the data replaced by its inflated form only     *)
(* when inflation succeeds, absent data left absent.  A writer/parser      *)
(* stage that ends at the closure of its channel has received all that     *)
(* was sent.                                                               *)
(***************************************************************************)
C29_ExactlyOnce ==
    /\ pm.pc = "run"
          => /\ \A k \in 1..Len(hist.sent1) : hist.sent1[k] = k
             /\ ItemsInFlightOk
             /\ IF pm.mode = "parse"
                THEN /\ hist.sent2 = hist.recv \o QueueIdx(q2)
                     /\ hist.sent1 = hist.sent2 \o InflateHolds \o QueueIdx(q1)
                ELSE hist.sent1 = hist.recv \o QueueIdx(q1)
    /\ (pm.pc \in {"join1", "join2", "ret", "done"} /\ pm.mode # "none"
        /\ hist.recv = hist.written)
          => /\ hist.recv = hist.sent1
             /\ pm.mode = "parse" => hist.sent2 = hist.sent1

\* All three elements of a container whose data does not inflate went
\* through a full queue and the inflate stage to the parser stage.
C29_Witness ==
    /\ pm.pc = "run" /\ pm.mode = "parse"
    /\ Len(pm.desc) = 3 /\ pm.desc[1].kind = "leaf"
    /\ hist.sent1 = << 1, 2, 3 >>
    /\ hist.recv = << 1 >>
    /\ Len(q2) = CHANNEL_BOUND

(***************************************************************************)
(* C30: name decoding never panics.  For an element whose header block is  *)
(* shorter than the 20 bytes of the fixed part, get_name returns an error  *)
(* value, and every unpack operation that decodes the name ends with an    *)
(* error result and does not abort: unpack_to_folder,                      *)
(* unpack_to_directory_no_load, save_file_to_folder, and the writer and    *)
(* parser stages of the pipeline.                                          *)
(***************************************************************************)
C30_NameNeverPanics ==
    /\ (fn.op = "get_name" /\ Len(fn.header) < 20)
          => ~fn.res.ok /\ fn.res.err # "PANIC"
    /\ fn.op = "unpack_short" => ~fn.res.ok /\ fn.res.err # "PANIC"
    /\ pm.pc # "panic"

\* Where the header block holds the fixed part, get_name does not abort.
C30_NoPanicFromFixedPart ==
    (fn.op = "get_name" /\ Len(fn.header) >= 20)
        => (fn.res.ok \/ fn.res.err # "PANIC")

====
